---------------------------- MODULE Spec2Model ----------------------------
(***************************************************************************)
(* A model of the nectar-db coupon pipeline: the detail-page resolver      *)
(* (processModalBatch), the shared browser handle (getBrowser), the        *)
(* per-domain retry flow and the bulk runner (scrapeCoupons, main), and    *)
(* the persistence paths (saveToDatabase and the HTTP handlers).           *)
(*                                                                         *)
(* Every subsystem has its own specification over its own variables; the   *)
(* variables of the other subsystems stay at their initial values.         *)
(***************************************************************************)
EXTENDS Integers, Sequences, FiniteSets, TLC

(***************************************************************************)
(* Bounds of the model.                                                    *)
(***************************************************************************)
\* the largest batch handed to processModalBatch
MaxBatchItems == 4

\* the number of tasks that call getBrowser concurrently
NumCallers == 2

\* the number of browsers puppeteer.launch may start in one run
MaxBrowsers == 3

\* the number of minutes the clock may advance
MaxTicks == 3

\* the largest number of candidates a listing page yields
MaxCandidates == 3

\* the largest listing whose coupon objects are followed to the store
MaxListed == 2

\* the number of pages set up side by side
MaxSetupPages == 2

\* the number of letters main goes through
MaxLetters == 2

\* the largest number of domains a category enumeration returns
MaxDomains == 3

\* the largest number of coupons a listing page yields
MaxListing == 1

\* the longest offer list handed to saveToDatabase or posted to /coupons
MaxOffers == 3

\* the longest offer list a scrape returns to a handler of the per-domain table
MaxScraped == 1

\* the number of half days the clock of the persistence paths may advance
MaxHalfDays == 3

\* the largest number of selectors that match an element of a detail page
MaxElements == 2

\* the largest number of offer cards on a listing page
MaxCards == 2

\* the largest concurrentLimit handed to processBatch
MaxLimit == 2

\* the largest batch handed to processBatch
MaxQueueItems == 3

\* the longest list the scrape of coupons.js returns
MaxRaceOffers == 3

(***************************************************************************)
(* Program constants.                                                      *)
(***************************************************************************)
\* scrape.js:402  Math.min(currentBatchItems.length, 3)
MaxConcurrentPages == 3

\* scrape.js:58  CONFIG.browserReuseTime
BrowserReuseTime == 120000

\* scrape.js:46-48  CONFIG.domainRetries, the default
DomainRetries == 2

\* scrape.js:425  setTimeout(resolve, 2000)
RetryDelayMs == 2000

\* scrape.js:45  CONFIG.batchSize, run with BATCH_SIZE=2 (the queue variant's
\* BATCH_SIZE of scrape.js:1009 is run with the same size)
BatchSize == 2

\* scrape.js:42-44  CONFIG.concurrentDomains, run with CONCURRENT_DOMAINS=2
ConcurrentDomains == 2

\* scrape.js:55-57  CONFIG.delayBetweenDomains, the default
DelayBetweenDomains == 1000

\* coupons.js:12  CACHE_TTL, in seconds
CACHE_TTL == 86400

\* the sentinel code "AUTOMATIC"; a code k > 0 stands for the string shown on
\* the detail page of item k
AUTOMATIC == 0

Min(a, b) == IF a < b THEN a ELSE b

VARIABLES
  \* ---- processModalBatch --------------------------------------------------
  batchItems,        \* number of items of the batch (batchItems.length)
  bpc,               \* position of processModalBatch
  pagePool,          \* pagePool: state of each pooled page handle
  doc,               \* doc[p]: the detail page (item) loaded in page p, 0 = none
  ipc,               \* ipc[i]: position of the async task of item i
  completeCoupons,   \* completeCoupons[item.index].code
  outcome,           \* outcome[i]: how the task of item i ended
  \* ---- getBrowser ---------------------------------------------------------
  browserInstance,   \* the module-level handle: 0 = null, else a browser id
  browserLastUsed,   \* the module-level timestamp: 0 = null, else ms
  now,               \* Date.now()
  browsers,          \* browsers[b]: "none", "open" or "closed"
  gpc,               \* gpc[c]: position of caller c inside getBrowser
  currentTime,       \* currentTime[c]: the local of caller c's call
  held,              \* held[c]: the browser getBrowser returned to caller c
  \* ---- scrapeCoupons and main ----------------------------------------------
  numDomains,        \* domains.length of the category being processed
  mpc,               \* position of main
  batchStart,        \* the loop variable i of main's batch loop
  dpc,               \* dpc[d]: position of the task of domain d
  retryCount,        \* retryCount[d]: the argument of the running scrapeCoupons
  throwLog,          \* throwLog[d]: per thrown attempt, where it threw
  waitedMs,          \* waitedMs[d]: time spent in the retry delay
  listingLen,        \* listingLen[d]: basicCoupons.length of the running attempt
  couponsLen,        \* couponsLen[d]: coupons.length returned to main
  success,           \* success[d]: the result main's task returned
  totalSuccessCount, \* main's tally
  totalErrorCount,   \* main's tally
  \* ---- persistence ---------------------------------------------------------
  rows,              \* the coupons table, one row per (domain, code)
  records,           \* the coupons table, one record per domain
  clock,             \* Date.now() of the persistence paths
  reqDomain,         \* the domain of the request or call
  reqCoupons,        \* the offers given to the persistence path
  handlerRun,        \* the handler that ran last, "none" before any
  upsertPayload,     \* the rows handed to the store's upsert by that handler
  upsertResult,      \* "none" (no upsert call), "ok" or "error"
  \* ---- one request to an API handler ---------------------------------------
  route,             \* the handler the request is routed to
  reqMethod,         \* req.method
  reqHasDomain,      \* whether the request names a domain
  configured,        \* whether SUPABASE_URL and SUPABASE_ANON_KEY are set
  hpc,               \* position of the handler
  responses,         \* the responses written to res, in order
  scrapeCalls,       \* number of scrapeCoupons calls the handler started
  storeWrites,       \* number of upsert calls the handler made
  servedFrom,        \* timestamps of the stored data the response was built from
  scraped,           \* the handler's local coupons
  \* ---- the resolution phase of one scrapeCoupons attempt --------------------
  variant,           \* "pool": scrape.js 220-641, "queue": scrape.js 1007-1232
  basicCoupons,      \* the listing candidates, in listing order
  rpc,               \* position of scrapeCoupons
  batchIndex,        \* number of the batch being processed, from 1
  cst,               \* cst[k]: position of the task of candidate k
  attempts,          \* attempts[k]: times the resolver took candidate k up
  navs,              \* navs[k]: navigations issued to candidate k's detail URL
  poolPages,         \* poolPages[b][p]: the pooled page p of batch b
  completeOffers,    \* completeCoupons of scrapeCoupons
  batchResults,      \* results of the running processBatch, in completion order
  returned,          \* what scrapeCoupons returned, <<>> before
  \* ---- main's loop over the letters ----------------------------------------
  credsSet,          \* whether SUPABASE_URL and SUPABASE_ANON_KEY are set
  lpc,               \* position of main
  letterIndex,       \* the position of the loop's letter in letters, from 1
  letterDomains,     \* domains.length of the letter
  letterI,           \* the loop variable i of the batch loop
  taskResult,        \* taskResult[d]: how the task of domain d of the batch ended
  bulkSuccessCount,  \* totalSuccessCount
  bulkErrorCount,    \* totalErrorCount
  enumerated,        \* enumerated[l]: the number of domains found for letter l
  processed,         \* processed[l]: the number of domains of letter l counted
  restMs,            \* delay elapsed since the last enumeration or batch ended
  firstFailure,      \* <<letter, domain>> of the first failed domain, <<0, 0>> if none
  \* ---- the maintenance handler ----------------------------------------------
  deletedRows,       \* the rows the last delete removed from the table
  \* ---- the steps of one saveToDatabase call ---------------------------------
  spc,               \* position of saveToDatabase
  upsertAttempts,    \* number of upsert calls the call made
  \* ---- the fields of a scraped offer on its way to the store ---------------
  persistPath,       \* the scrape and the write that persists its result
  scrapedList,       \* the coupon objects: as listed, then as scrapeCoupons returns them
  storedObjects,     \* the rows, or the offers of the record, written to the store
  fpc,               \* "listed", "scraped" or "stored"
  \* ---- the setup of the pages the pipeline opens ----------------------------
  pageKind,          \* pageKind[p]: the place in the code that opened page p
  pageCalls,         \* pageCalls[p]: the calls made on page p, in order
  pageState,         \* pageState[p]: "open", or "threw" after a call that rejected
  \* ---- the code extraction on one detail page --------------------------------
  dom,               \* dom[s]: the element document.querySelector(selectors[s]) returns
  xpc,               \* position of the item's task
  passes,            \* number of times the selector loop ran
  evaluated,         \* the value page.evaluate resolved with
  itemCode,          \* completeCoupons[item.index].code
  \* ---- the extraction of the listing page ------------------------------------
  listingKind,       \* the place in the code of the listing extraction
  cardsSeen,         \* number of offer cards forEach has visited
  lastCard,          \* the offer card visited last
  candidates,        \* basicCoupons (coupons), in listing order
  kpc,               \* position of scrapeCoupons
  bypassed,          \* the candidates returned without a detail page
  \* ---- one call of processBatch (scrape.js 1133-1232) ------------------------
  concurrentLimit,   \* the argument concurrentLimit
  numCoupons,        \* coupons.length
  queue,             \* queue: the items not taken yet, by id
  inProgress,        \* inProgress
  results,           \* results, by id
  chainPc,           \* chainPc[c]: position of the c-th chain of processNextItem calls
  chainItem,         \* chainItem[c]: the item the chain is processing, 0 = none
  pagePromise,       \* pagePromise[i]: "none", "pending" or "resolved"
  navigation,        \* navigation[i]: the goto and evaluate of item i
  timeoutId,         \* timeoutId[i]: the 8 s timer of item i
  taken,             \* taken[i]: times item i was shifted from the queue
  pbpc,              \* position of processBatch
  \* ---- the GET handler of coupons.js racing its scrape against the timeout ---
  racePc,            \* position of the handler
  scrapePc,          \* position of the scrapeCoupons call of coupons.js
  scrapeBrowser,     \* the browser of that call: "none", "open" or "closed"
  scrapeValue,       \* the length of the list the call resolves with
  overallTimer,      \* the timer of timeoutPromise
  raceWinner,        \* the promise that settled Promise.race first
  raceResponse,      \* the responses written to res
  raceUpserts,       \* the number of upsert calls of the request
  raceRecord         \* the record of the domain in the store

batchVars == <<batchItems, bpc, pagePool, doc, ipc, completeCoupons, outcome>>

browserVars ==
  <<browserInstance, browserLastUsed, now, browsers, gpc, currentTime, held>>

mainVars ==
  <<numDomains, mpc, batchStart, dpc, retryCount, throwLog, waitedMs,
    listingLen, couponsLen, success, totalSuccessCount, totalErrorCount>>

storeVars ==
  <<rows, records, clock, reqDomain, reqCoupons, handlerRun, upsertPayload,
    upsertResult>>

requestVars ==
  <<route, reqMethod, reqHasDomain, configured, hpc, responses, scrapeCalls,
    storeWrites, servedFrom, scraped>>

resolveVars ==
  <<variant, basicCoupons, rpc, batchIndex, cst, attempts, navs, poolPages,
    completeOffers, batchResults, returned>>

bulkVars ==
  <<credsSet, lpc, letterIndex, letterDomains, letterI, taskResult,
    bulkSuccessCount, bulkErrorCount, enumerated, processed, restMs,
    firstFailure>>

cleanupVars == <<deletedRows>>

saveStepVars == <<spc, upsertAttempts>>

fieldVars == <<persistPath, scrapedList, storedObjects, fpc>>

pageVars == <<pageKind, pageCalls, pageState>>

extractVars == <<dom, xpc, passes, evaluated, itemCode>>

listingVars == <<listingKind, cardsSeen, lastCard, candidates, kpc, bypassed>>

processBatchVars ==
  <<concurrentLimit, numCoupons, queue, inProgress, results, chainPc,
    chainItem, pagePromise, navigation, timeoutId, taken, pbpc>>

raceVars ==
  <<racePc, scrapePc, scrapeBrowser, scrapeValue, overallTimer, raceWinner,
    raceResponse, raceUpserts, raceRecord>>

vars ==
  <<batchVars, browserVars, mainVars, storeVars, requestVars, resolveVars,
    bulkVars, cleanupVars, saveStepVars, fieldVars, pageVars, extractVars,
    listingVars, processBatchVars, raceVars>>

notBatch ==
  <<browserVars, mainVars, storeVars, requestVars, resolveVars, bulkVars,
    cleanupVars, saveStepVars, fieldVars, pageVars, extractVars, listingVars,
    processBatchVars, raceVars>>
notBrowser ==
  <<batchVars, mainVars, storeVars, requestVars, resolveVars, bulkVars,
    cleanupVars, saveStepVars, fieldVars, pageVars, extractVars, listingVars,
    processBatchVars, raceVars>>
notMain ==
  <<batchVars, browserVars, storeVars, requestVars, resolveVars, bulkVars,
    cleanupVars, saveStepVars, fieldVars, pageVars, extractVars, listingVars,
    processBatchVars, raceVars>>
notStore ==
  <<batchVars, browserVars, mainVars, requestVars, resolveVars, bulkVars,
    cleanupVars, saveStepVars, fieldVars, pageVars, extractVars, listingVars,
    processBatchVars, raceVars>>
notRequest ==
  <<batchVars, browserVars, mainVars, resolveVars, bulkVars, cleanupVars,
    saveStepVars, fieldVars, pageVars, extractVars, listingVars,
    processBatchVars, raceVars>>
notResolve ==
  <<batchVars, browserVars, mainVars, storeVars, requestVars, bulkVars,
    cleanupVars, saveStepVars, fieldVars, pageVars, extractVars, listingVars,
    processBatchVars, raceVars>>
notBulk ==
  <<batchVars, browserVars, mainVars, storeVars, requestVars, resolveVars,
    cleanupVars, saveStepVars, fieldVars, pageVars, extractVars, listingVars,
    processBatchVars, raceVars>>
notCleanup ==
  <<batchVars, browserVars, mainVars, requestVars, resolveVars, bulkVars,
    saveStepVars, fieldVars, pageVars, extractVars, listingVars,
    processBatchVars, raceVars>>
notSaveSteps ==
  <<batchVars, browserVars, mainVars, requestVars, resolveVars, bulkVars,
    cleanupVars, fieldVars, pageVars, extractVars, listingVars,
    processBatchVars, raceVars>>
notFields ==
  <<batchVars, browserVars, mainVars, storeVars, requestVars, resolveVars,
    bulkVars, cleanupVars, saveStepVars, pageVars, extractVars, listingVars,
    processBatchVars, raceVars>>
notPages ==
  <<batchVars, browserVars, mainVars, storeVars, requestVars, resolveVars,
    bulkVars, cleanupVars, saveStepVars, fieldVars, extractVars, listingVars,
    processBatchVars, raceVars>>
notExtract ==
  <<batchVars, browserVars, mainVars, storeVars, requestVars, resolveVars,
    bulkVars, cleanupVars, saveStepVars, fieldVars, pageVars, listingVars,
    processBatchVars, raceVars>>
notListing ==
  <<batchVars, browserVars, mainVars, storeVars, requestVars, resolveVars,
    bulkVars, cleanupVars, saveStepVars, fieldVars, pageVars, extractVars,
    processBatchVars, raceVars>>
notProcessBatch ==
  <<batchVars, browserVars, mainVars, storeVars, requestVars, resolveVars,
    bulkVars, cleanupVars, saveStepVars, fieldVars, pageVars, extractVars,
    listingVars, raceVars>>
notRace ==
  <<batchVars, browserVars, mainVars, storeVars, requestVars, resolveVars,
    bulkVars, cleanupVars, saveStepVars, fieldVars, pageVars, extractVars,
    listingVars, processBatchVars>>

-----------------------------------------------------------------------------
(***************************************************************************)
(* processModalBatch (scrape.js 440-641)                                   *)
(***************************************************************************)
Items == 1..MaxBatchItems
Pages == 1..MaxConcurrentPages

\* scrape.js:402 the concurrentLimit argument scrapeCoupons passes
ConcurrentLimit == Min(batchItems, MaxConcurrentPages)

\* scrape.js:449 the number of pages the pool loop creates
PoolTarget == Min(batchItems, ConcurrentLimit)

\* pagePool.length
PoolLength == Cardinality({p \in Pages : pagePool[p] # "none"})

\* scrape.js:490 pagePool[i % pagePool.length] (items and pages count from 1)
PageOf(i) == ((i - 1) % PoolLength) + 1

BatchInit ==
  /\ batchItems \in 1..MaxBatchItems
  /\ bpc = "pool"
  /\ pagePool = [p \in Pages |-> "none"]
  /\ doc = [p \in Pages |-> 0]
  /\ ipc = [i \in Items |-> "idle"]
  /\ completeCoupons = [i \in Items |-> AUTOMATIC]
  /\ outcome = [i \in Items |-> "none"]

\* the resolver at rest, for the specifications it takes no part in
BatchIdle ==
  /\ batchItems = 1
  /\ bpc = "returned"
  /\ pagePool = [p \in Pages |-> "none"]
  /\ doc = [p \in Pages |-> 0]
  /\ ipc = [i \in Items |-> "idle"]
  /\ completeCoupons = [i \in Items |-> AUTOMATIC]
  /\ outcome = [i \in Items |-> "none"]

\* scrape.js:450 browser.newPage() for the next pool slot
PoolNewPage ==
  /\ bpc = "pool"
  /\ PoolLength < PoolTarget
  /\ \A p \in Pages : pagePool[p] # "created"
  /\ pagePool' = [pagePool EXCEPT ![PoolLength + 1] = "created"]
  /\ UNCHANGED <<batchItems, bpc, doc, ipc, completeCoupons, outcome>>
  /\ UNCHANGED notBatch

\* scrape.js:453-482 setUserAgent, setJavaScriptEnabled, evaluateOnNewDocument,
\* setRequestInterception, pagePool.push
PoolSetupPage ==
  /\ bpc = "pool"
  /\ \E p \in Pages :
       /\ pagePool[p] = "created"
       /\ pagePool' = [pagePool EXCEPT ![p] = "ready"]
  /\ UNCHANGED <<batchItems, bpc, doc, ipc, completeCoupons, outcome>>
  /\ UNCHANGED notBatch

\* scrape.js:449-483 the pool loop has no try/catch: a rejected newPage or
\* setup call rejects processModalBatch
PoolThrow ==
  /\ bpc = "pool"
  /\ \/ PoolLength < PoolTarget
     \/ \E p \in Pages : pagePool[p] = "created"
  /\ bpc' = "rejected"
  /\ UNCHANGED <<batchItems, pagePool, doc, ipc, completeCoupons, outcome>>
  /\ UNCHANGED notBatch

\* scrape.js:488-630 the for loop has no await: every async task is created
\* and runs up to its first await (the log call of line 495)
SpawnItems ==
  /\ bpc = "pool"
  /\ PoolLength = PoolTarget
  /\ \A p \in Pages : pagePool[p] # "created"
  /\ bpc' = "await"
  /\ ipc' = [i \in Items |-> IF i <= batchItems THEN "log" ELSE "idle"]
  /\ UNCHANGED <<batchItems, pagePool, doc, completeCoupons, outcome>>
  /\ UNCHANGED notBatch

\* a task without the catch: its rejection rejects Promise.all and the batch
ItemCatchBpc_Uncaught == "rejected"

\* scrape.js:622-627 the catch of the task absorbs the error: the batch goes on
ItemCatchBpc == bpc

\* scrape.js:622-627 the catch of the task: the error is logged, the task ends
ItemCatch(i) ==
  /\ ipc' = [ipc EXCEPT ![i] = "done"]
  /\ outcome' = [outcome EXCEPT ![i] = "failed"]
  /\ bpc' = ItemCatchBpc

\* scrape.js:495-502 the log resolves, modalPage.goto(item.url) is issued
ItemGotoStart(i) ==
  /\ ipc[i] = "log"
  /\ ipc' = [ipc EXCEPT ![i] = "goto"]
  /\ UNCHANGED <<batchItems, bpc, pagePool, doc, completeCoupons, outcome>>
  /\ UNCHANGED notBatch

\* scrape.js:502-505 the navigation commits: the page shows item i's detail page
ItemGotoDone(i) ==
  /\ ipc[i] = "goto"
  /\ doc' = [doc EXCEPT ![PageOf(i)] = i]
  /\ ipc' = [ipc EXCEPT ![i] = "wait"]
  /\ UNCHANGED <<batchItems, bpc, pagePool, completeCoupons, outcome>>
  /\ UNCHANGED notBatch

\* scrape.js:502-505 goto rejects (timeout, network error, interrupted): the
\* page keeps its document or is left on an error page
ItemGotoThrow(i) ==
  /\ ipc[i] = "goto"
  /\ \E d \in {doc[PageOf(i)], 0} : doc' = [doc EXCEPT ![PageOf(i)] = d]
  /\ ItemCatch(i)
  /\ UNCHANGED <<batchItems, pagePool, completeCoupons>>
  /\ UNCHANGED notBatch

\* scrape.js:508-520 waitForSelector: found, or the timeout caught at line 515
ItemWaitSelector(i) ==
  /\ ipc[i] = "wait"
  /\ ipc' = [ipc EXCEPT ![i] = "settle"]
  /\ UNCHANGED <<batchItems, bpc, pagePool, doc, completeCoupons, outcome>>
  /\ UNCHANGED notBatch

\* scrape.js:523-525 the 500 ms settle delay evaluated in the page
ItemSettle(i) ==
  /\ ipc[i] = "settle"
  /\ ipc' = [ipc EXCEPT ![i] = "extract"]
  /\ UNCHANGED <<batchItems, bpc, pagePool, doc, completeCoupons, outcome>>
  /\ UNCHANGED notBatch

\* scrape.js:523-604 an evaluate call rejects (context destroyed, page crashed)
ItemEvaluateThrow(i) ==
  /\ ipc[i] \in {"settle", "extract"}
  /\ ItemCatch(i)
  /\ UNCHANGED <<batchItems, pagePool, doc, completeCoupons>>
  /\ UNCHANGED notBatch

\* scrape.js:528-604 what the extraction returns on a page showing document d:
\* the code of that detail page, or "AUTOMATIC" when no selector yields one
ExtractedCodes(d) == IF d = 0 THEN {AUTOMATIC} ELSE {AUTOMATIC, d}

\* scrape.js:528-621 the extraction runs in the page the task holds and the
\* result updates completeCoupons[item.index].code
ItemExtract(i) ==
  /\ ipc[i] = "extract"
  /\ \E code \in ExtractedCodes(doc[PageOf(i)]) :
       IF code # AUTOMATIC
         THEN /\ completeCoupons' = [completeCoupons EXCEPT ![i] = code]
              /\ outcome' = [outcome EXCEPT ![i] = "resolved"]
         ELSE /\ UNCHANGED completeCoupons
              /\ outcome' = [outcome EXCEPT ![i] = "nocode"]
  /\ ipc' = [ipc EXCEPT ![i] = "done"]
  /\ UNCHANGED <<batchItems, bpc, pagePool, doc>>
  /\ UNCHANGED notBatch

\* scrape.js:633 Promise.all(batchPromises) resolves once every task has ended
BatchAllSettled ==
  /\ bpc = "await"
  /\ \A i \in 1..batchItems : ipc[i] = "done"
  /\ bpc' = "close"
  /\ UNCHANGED <<batchItems, pagePool, doc, ipc, completeCoupons, outcome>>
  /\ UNCHANGED notBatch

\* scrape.js:636-640 each pooled page is closed; a failing close is caught
BatchClosePage ==
  /\ bpc = "close"
  /\ \E p \in Pages :
       /\ pagePool[p] = "ready"
       /\ \A q \in Pages : q < p => pagePool[q] # "ready"
       /\ \E r \in {"closed", "closeFailed"} :
            pagePool' = [pagePool EXCEPT ![p] = r]
  /\ UNCHANGED <<batchItems, bpc, doc, ipc, completeCoupons, outcome>>
  /\ UNCHANGED notBatch

\* scrape.js:641 processModalBatch resolves
BatchReturn ==
  /\ bpc = "close"
  /\ \A p \in Pages : pagePool[p] # "ready"
  /\ bpc' = "returned"
  /\ UNCHANGED <<batchItems, pagePool, doc, ipc, completeCoupons, outcome>>
  /\ UNCHANGED notBatch

BatchNext ==
  \/ PoolNewPage
  \/ PoolSetupPage
  \/ PoolThrow
  \/ SpawnItems
  \/ \E i \in Items : ItemGotoStart(i)
  \/ \E i \in Items : ItemGotoDone(i)
  \/ \E i \in Items : ItemGotoThrow(i)
  \/ \E i \in Items : ItemWaitSelector(i)
  \/ \E i \in Items : ItemSettle(i)
  \/ \E i \in Items : ItemEvaluateThrow(i)
  \/ \E i \in Items : ItemExtract(i)
  \/ BatchAllSettled
  \/ BatchClosePage
  \/ BatchReturn


-----------------------------------------------------------------------------
(***************************************************************************)
(* getBrowser (scrape.js 62-121) and its concurrent callers: the domain    *)
(* tasks of one bulk batch (scrape.js 830-851) or concurrent requests      *)
(***************************************************************************)
Callers == 1..NumCallers
BrowserIds == 1..MaxBrowsers

\* the clock advances in steps of one minute
MinuteMs == BrowserReuseTime \div 2

BrowserInit ==
  /\ browserInstance = 0
  /\ browserLastUsed = 0
  /\ now = MinuteMs
  /\ browsers = [b \in BrowserIds |-> "none"]
  /\ gpc = [c \in Callers |-> "idle"]
  /\ currentTime = [c \in Callers |-> 0]
  /\ held = [c \in Callers |-> 0]

\* the browser handle at rest, for the specifications it takes no part in
BrowserIdle == BrowserInit

\* time passes
Tick ==
  /\ now < MinuteMs * (MaxTicks + 1)
  /\ now' = now + MinuteMs
  /\ UNCHANGED <<browserInstance, browserLastUsed, browsers, gpc, currentTime, held>>
  /\ UNCHANGED notBrowser

\* a reuse test that includes the end of the window
CanReuse_Inclusive(t) ==
  /\ browserInstance # 0
  /\ browserLastUsed # 0
  /\ t - browserLastUsed <= BrowserReuseTime

\* scrape.js:66-70 the reuse test
CanReuse(t) ==
  /\ browserInstance # 0
  /\ browserLastUsed # 0
  /\ t - browserLastUsed < BrowserReuseTime

\* scrape.js:63-73 the call up to the reuse return
GetBrowserReuse(c) ==
  /\ gpc[c] = "idle"
  /\ CanReuse(now)
  /\ browserLastUsed' = now
  /\ held' = [held EXCEPT ![c] = browserInstance]
  /\ gpc' = [gpc EXCEPT ![c] = "holding"]
  /\ UNCHANGED <<browserInstance, now, browsers, currentTime>>
  /\ UNCHANGED notBrowser

\* scrape.js:63-78 no reuse and a browser exists: browserInstance.close() is
\* called and awaited
GetBrowserCloseOld(c) ==
  /\ gpc[c] = "idle"
  /\ ~CanReuse(now)
  /\ browserInstance # 0
  /\ currentTime' = [currentTime EXCEPT ![c] = now]
  /\ held' = [held EXCEPT ![c] = browserInstance]
  /\ gpc' = [gpc EXCEPT ![c] = "close"]
  /\ UNCHANGED <<browserInstance, browserLastUsed, now, browsers>>
  /\ UNCHANGED notBrowser

\* scrape.js:77-83 close() resolves, or rejects and is caught: in both cases
\* the call goes on to the launch
GetBrowserClosed(c) ==
  /\ gpc[c] = "close"
  /\ \E r \in {"closed", browsers[held[c]]} :
       browsers' = [browsers EXCEPT ![held[c]] = r]
  /\ held' = [held EXCEPT ![c] = 0]
  /\ gpc' = [gpc EXCEPT ![c] = "launch"]
  /\ UNCHANGED <<browserInstance, browserLastUsed, now, currentTime>>
  /\ UNCHANGED notBrowser

\* scrape.js:63-86 no reuse and no browser: the call awaits the log of line 86
GetBrowserNoOld(c) ==
  /\ gpc[c] = "idle"
  /\ ~CanReuse(now)
  /\ browserInstance = 0
  /\ currentTime' = [currentTime EXCEPT ![c] = now]
  /\ gpc' = [gpc EXCEPT ![c] = "launch"]
  /\ UNCHANGED <<browserInstance, browserLastUsed, now, browsers, held>>
  /\ UNCHANGED notBrowser

\* scrape.js:87-104 puppeteer.launch resolves: the new browser is assigned to
\* browserInstance, then browserInstance.pages() is awaited
GetBrowserLaunched(c) ==
  /\ gpc[c] = "launch"
  /\ \E b \in BrowserIds :
       /\ browsers[b] = "none"
       /\ \A a \in BrowserIds : a < b => browsers[a] # "none"
       /\ browsers' = [browsers EXCEPT ![b] = "open"]
       /\ browserInstance' = b
  /\ gpc' = [gpc EXCEPT ![c] = "patch"]
  /\ UNCHANGED <<browserLastUsed, now, currentTime, held>>
  /\ UNCHANGED notBrowser

\* scrape.js:87-117 launch, pages() or evaluateOnNewDocument rejects: so does
\* getBrowser
GetBrowserThrow(c) ==
  /\ gpc[c] \in {"launch", "patch"}
  /\ gpc' = [gpc EXCEPT ![c] = "idle"]
  /\ currentTime' = [currentTime EXCEPT ![c] = 0]
  /\ UNCHANGED <<browserInstance, browserLastUsed, now, browsers, held>>
  /\ UNCHANGED notBrowser

\* scrape.js:104-120 the patch is installed; browserLastUsed takes the time the
\* call began and the call returns the handle browserInstance holds now
GetBrowserReturn(c) ==
  /\ gpc[c] = "patch"
  /\ browserLastUsed' = currentTime[c]
  /\ held' = [held EXCEPT ![c] = browserInstance]
  /\ currentTime' = [currentTime EXCEPT ![c] = 0]
  /\ gpc' = [gpc EXCEPT ![c] = "holding"]
  /\ UNCHANGED <<browserInstance, now, browsers>>
  /\ UNCHANGED notBrowser

\* scrape.js:226-413 the caller's scrape ends; the browser is left open
CallerDone(c) ==
  /\ gpc[c] = "holding"
  /\ held' = [held EXCEPT ![c] = 0]
  /\ gpc' = [gpc EXCEPT ![c] = "idle"]
  /\ UNCHANGED <<browserInstance, browserLastUsed, now, browsers, currentTime>>
  /\ UNCHANGED notBrowser

BrowserNext ==
  \/ Tick
  \/ \E c \in Callers : GetBrowserReuse(c)
  \/ \E c \in Callers : GetBrowserCloseOld(c)
  \/ \E c \in Callers : GetBrowserClosed(c)
  \/ \E c \in Callers : GetBrowserNoOld(c)
  \/ \E c \in Callers : GetBrowserLaunched(c)
  \/ \E c \in Callers : GetBrowserThrow(c)
  \/ \E c \in Callers : GetBrowserReturn(c)
  \/ \E c \in Callers : CallerDone(c)

-----------------------------------------------------------------------------
(***************************************************************************)
(* scrapeCoupons (scrape.js 220-430) and the batch loop of main            *)
(* (scrape.js 817-873), for the domains of one category                    *)
(***************************************************************************)
Domains == 1..MaxDomains

\* the awaited stages of one attempt of scrapeCoupons, in order:
\* getBrowser (226), newPage (229), page setup (232-271), goto (279),
\* listing extraction (287-358), page.close (368), processModalBatch (371-407)
Stages ==
  <<"getBrowser", "newPage", "setup", "goto", "listing", "closePage", "resolve">>

StageSet == {Stages[k] : k \in 1..Len(Stages)}

StageIndex(st) == CHOOSE k \in 1..Len(Stages) : Stages[k] = st

\* where an attempt threw, as the claims distinguish it
ThrowKind(st) == IF st = "goto" THEN "nav" ELSE "other"

\* scrape.js:821-822 the slice of domains main processes together
BatchOf(i) == {d \in Domains : i < d /\ d <= i + ConcurrentDomains /\ d <= numDomains}

MainInit ==
  /\ numDomains \in 1..MaxDomains
  /\ mpc = "batch"
  /\ batchStart = 0
  /\ dpc = [d \in Domains |-> "idle"]
  /\ retryCount = [d \in Domains |-> 0]
  /\ throwLog = [d \in Domains |-> <<>>]
  /\ waitedMs = [d \in Domains |-> 0]
  /\ listingLen = [d \in Domains |-> 0]
  /\ couponsLen = [d \in Domains |-> 0]
  /\ success = [d \in Domains |-> "none"]
  /\ totalSuccessCount = 0
  /\ totalErrorCount = 0

\* the bulk runner at rest, for the specifications it takes no part in
MainIdle ==
  /\ numDomains = 1
  /\ mpc = "done"
  /\ batchStart = 0
  /\ dpc = [d \in Domains |-> "idle"]
  /\ retryCount = [d \in Domains |-> 0]
  /\ throwLog = [d \in Domains |-> <<>>]
  /\ waitedMs = [d \in Domains |-> 0]
  /\ listingLen = [d \in Domains |-> 0]
  /\ couponsLen = [d \in Domains |-> 0]
  /\ success = [d \in Domains |-> "none"]
  /\ totalSuccessCount = 0
  /\ totalErrorCount = 0

\* scrape.js:821-833 batch.map creates the task of every domain of the slice;
\* each runs up to its first await (the log of line 833)
MainStartBatch ==
  /\ mpc = "batch"
  /\ batchStart < numDomains
  /\ dpc' = [d \in Domains |-> IF d \in BatchOf(batchStart) THEN "log" ELSE dpc[d]]
  /\ mpc' = "await"
  /\ UNCHANGED <<numDomains, batchStart, retryCount, throwLog, waitedMs,
                 listingLen, couponsLen, success, totalSuccessCount,
                 totalErrorCount>>
  /\ UNCHANGED notMain

\* scrape.js:833-835, 220-226 the task calls scrapeCoupons(domain), retryCount 0
DomainBegin(d) ==
  /\ dpc[d] = "log"
  /\ dpc' = [dpc EXCEPT ![d] = "getBrowser"]
  /\ UNCHANGED <<numDomains, mpc, batchStart, retryCount, throwLog, waitedMs,
                 listingLen, couponsLen, success, totalSuccessCount,
                 totalErrorCount>>
  /\ UNCHANGED notMain

\* scrape.js:226-368 an awaited stage before the resolution resolves; the
\* listing extraction yields basicCoupons
StageOk(d) ==
  /\ dpc[d] \in StageSet \ {"closePage", "resolve"}
  /\ dpc' = [dpc EXCEPT ![d] = Stages[StageIndex(dpc[d]) + 1]]
  /\ IF dpc[d] = "listing"
       THEN \E n \in 0..MaxListing : listingLen' = [listingLen EXCEPT ![d] = n]
       ELSE UNCHANGED listingLen
  /\ UNCHANGED <<numDomains, mpc, batchStart, retryCount, throwLog, waitedMs,
                 couponsLen, success, totalSuccessCount, totalErrorCount>>
  /\ UNCHANGED notMain

\* scrape.js:368-371 the listing page is closed; with coupons found the
\* resolution follows
StageClosePage(d) ==
  /\ dpc[d] = "closePage"
  /\ listingLen[d] > 0
  /\ dpc' = [dpc EXCEPT ![d] = "resolve"]
  /\ UNCHANGED <<numDomains, mpc, batchStart, retryCount, throwLog, waitedMs,
                 listingLen, couponsLen, success, totalSuccessCount,
                 totalErrorCount>>
  /\ UNCHANGED notMain

\* scrape.js:368-413 the attempt returns completeCoupons: after page.close
\* when the listing is empty, else after the last processModalBatch
ScrapeReturn(d) ==
  /\ \/ dpc[d] = "closePage" /\ listingLen[d] = 0
     \/ dpc[d] = "resolve"
  /\ couponsLen' = [couponsLen EXCEPT ![d] = listingLen[d]]
  /\ dpc' = [dpc EXCEPT ![d] = "returned"]
  /\ UNCHANGED <<numDomains, mpc, batchStart, retryCount, throwLog, waitedMs,
                 listingLen, success, totalSuccessCount, totalErrorCount>>
  /\ UNCHANGED notMain

\* the retry test with the bound included
ShouldRetry_OffByOne(rc) == rc <= DomainRetries

\* scrape.js:418 if (retryCount < CONFIG.domainRetries)
ShouldRetry(rc) == rc < DomainRetries

\* scrape.js:414-429 a stage throws: the catch logs, then waits and retries,
\* or returns []
StageThrow(d) ==
  /\ dpc[d] \in StageSet
  /\ throwLog' = [throwLog EXCEPT ![d] = Append(@, ThrowKind(dpc[d]))]
  /\ IF ShouldRetry(retryCount[d])
       THEN /\ dpc' = [dpc EXCEPT ![d] = "retryWait"]
            /\ UNCHANGED couponsLen
       ELSE /\ dpc' = [dpc EXCEPT ![d] = "returned"]
            /\ couponsLen' = [couponsLen EXCEPT ![d] = 0]
  /\ UNCHANGED <<numDomains, mpc, batchStart, retryCount, waitedMs,
                 listingLen, success, totalSuccessCount, totalErrorCount>>
  /\ UNCHANGED notMain

\* scrape.js:425-426 the 2 s delay elapses; scrapeCoupons(domain, retryCount + 1)
\* starts the flow again
RetryAfterDelay(d) ==
  /\ dpc[d] = "retryWait"
  /\ retryCount[d] <= DomainRetries   \* the counter is capped for the check
  /\ waitedMs' = [waitedMs EXCEPT ![d] = @ + RetryDelayMs]
  /\ retryCount' = [retryCount EXCEPT ![d] = @ + 1]
  /\ listingLen' = [listingLen EXCEPT ![d] = 0]
  /\ dpc' = [dpc EXCEPT ![d] = "getBrowser"]
  /\ UNCHANGED <<numDomains, mpc, batchStart, throwLog, couponsLen, success,
                 totalSuccessCount, totalErrorCount>>
  /\ UNCHANGED notMain

\* the success test satisfied by an empty result
HasCoupons_Always(n) == n >= 0

\* scrape.js:837 if (coupons.length > 0)
HasCoupons(n) == n > 0

\* scrape.js:837-845 main's task after scrapeCoupons returned: with coupons it
\* goes on to saveToDatabase, without it returns { success: false }
DomainAfterScrape(d) ==
  /\ dpc[d] = "returned"
  /\ IF HasCoupons(couponsLen[d])
       THEN /\ dpc' = [dpc EXCEPT ![d] = "save"]
            /\ UNCHANGED success
       ELSE /\ dpc' = [dpc EXCEPT ![d] = "settled"]
            /\ success' = [success EXCEPT ![d] = FALSE]
  /\ UNCHANGED <<numDomains, mpc, batchStart, retryCount, throwLog, waitedMs,
                 listingLen, couponsLen, totalSuccessCount, totalErrorCount>>
  /\ UNCHANGED notMain

\* scrape.js:838-840 saveToDatabase resolves (it catches its own errors) and the
\* task returns { success: true }
DomainSaved(d) ==
  /\ dpc[d] = "save"
  /\ dpc' = [dpc EXCEPT ![d] = "settled"]
  /\ success' = [success EXCEPT ![d] = TRUE]
  /\ UNCHANGED <<numDomains, mpc, batchStart, retryCount, throwLog, waitedMs,
                 listingLen, couponsLen, totalSuccessCount, totalErrorCount>>
  /\ UNCHANGED notMain

\* scrape.js:830-872 Promise.all resolves; the results are counted; the loop
\* goes on after the inter-batch delay or ends
MainTally ==
  /\ mpc = "await"
  /\ \A d \in BatchOf(batchStart) : dpc[d] = "settled"
  /\ totalSuccessCount' =
       totalSuccessCount + Cardinality({d \in BatchOf(batchStart) : success[d] = TRUE})
  /\ totalErrorCount' =
       totalErrorCount + Cardinality({d \in BatchOf(batchStart) : success[d] # TRUE})
  /\ dpc' = [d \in Domains |-> IF d \in BatchOf(batchStart) THEN "counted" ELSE dpc[d]]
  /\ batchStart' = batchStart + ConcurrentDomains
  /\ mpc' = IF batchStart + ConcurrentDomains < numDomains THEN "delay" ELSE "done"
  /\ UNCHANGED <<numDomains, retryCount, throwLog, waitedMs, listingLen,
                 couponsLen, success>>
  /\ UNCHANGED notMain

\* scrape.js:821, 865-873 the inter-batch delay elapses and the iteration ends:
\* the calls of its domains are over and their locals gone; what each task
\* returned stays on record in success
MainDelay ==
  /\ mpc = "delay"
  /\ mpc' = "batch"
  /\ retryCount' = [d \in Domains |-> 0]
  /\ throwLog' = [d \in Domains |-> <<>>]
  /\ waitedMs' = [d \in Domains |-> 0]
  /\ listingLen' = [d \in Domains |-> 0]
  /\ couponsLen' = [d \in Domains |-> 0]
  /\ UNCHANGED <<numDomains, batchStart, dpc, success, totalSuccessCount,
                 totalErrorCount>>
  /\ UNCHANGED notMain

MainNext ==
  \/ MainStartBatch
  \/ \E d \in Domains : DomainBegin(d)
  \/ \E d \in Domains : StageOk(d)
  \/ \E d \in Domains : StageClosePage(d)
  \/ \E d \in Domains : ScrapeReturn(d)
  \/ \E d \in Domains : StageThrow(d)
  \/ \E d \in Domains : RetryAfterDelay(d)
  \/ \E d \in Domains : DomainAfterScrape(d)
  \/ \E d \in Domains : DomainSaved(d)
  \/ MainTally
  \/ MainDelay

-----------------------------------------------------------------------------
(***************************************************************************)
(* main (scrape.js 749-897): the loop over the letters, with the domain    *)
(* tasks reduced to their outcome (scrapeCoupons and saveToDatabase are    *)
(* modelled above), and the exit of the process (scrape.js 903-907)        *)
(***************************************************************************)
Letters == 1..MaxLetters

\* the result of one domain task, scrape.js:832-849: "ok" for coupons found
\* and saved, "unsaved" for coupons found whose upsert inside saveToDatabase
\* returned an error or threw (scrape.js 686-695: logged, not raised), "empty"
\* for the failed (empty) result of scrapeCoupons, "threw" for an exception
\* inside the task
TaskOutcomes == {"ok", "unsaved", "empty", "threw"}

\* a task that reports success only when the upsert succeeded
ResultSuccess_Stored(r) == r = "ok"

\* scrape.js:838-848 result.success: true after saveToDatabase returned,
\* false in the else branch and in the catch
ResultSuccess(r) == r \in {"ok", "unsaved"}

\* scrape.js:821-822 the slice of the letter's domains processed together
LetterBatch(i) ==
  {d \in Domains : i < d /\ d <= i + ConcurrentDomains /\ d <= letterDomains}

BulkInit ==
  /\ credsSet \in BOOLEAN
  /\ lpc = "start"
  /\ letterIndex = 1
  /\ letterDomains = 0
  /\ letterI = 0
  /\ taskResult = [d \in Domains |-> "none"]
  /\ bulkSuccessCount = 0
  /\ bulkErrorCount = 0
  /\ enumerated = [l \in Letters |-> 0]
  /\ processed = [l \in Letters |-> 0]
  /\ restMs = 0
  /\ firstFailure = <<0, 0>>

\* no bulk run, for the specifications main's letter loop takes no part in
BulkIdle ==
  /\ credsSet = TRUE
  /\ lpc = "idle"
  /\ letterIndex = 1
  /\ letterDomains = 0
  /\ letterI = 0
  /\ taskResult = [d \in Domains |-> "none"]
  /\ bulkSuccessCount = 0
  /\ bulkErrorCount = 0
  /\ enumerated = [l \in Letters |-> 0]
  /\ processed = [l \in Letters |-> 0]
  /\ restMs = 0
  /\ firstFailure = <<0, 0>>

\* scrape.js:753-764, 797-803 the credentials are checked: process.exit(1)
\* without them, else the loop over the letters begins
BulkStart ==
  /\ lpc = "start"
  /\ lpc' = IF credsSet THEN "enumerate" ELSE "exit1"
  /\ UNCHANGED <<credsSet, letterIndex, letterDomains, letterI, taskResult,
                 bulkSuccessCount, bulkErrorCount, enumerated, processed,
                 restMs, firstFailure>>
  /\ UNCHANGED notBulk

\* scrape.js:806, 128-212 scrapeDomains(letter) returns the domains of the
\* letter, none when its own try caught an error
BulkEnumerate ==
  /\ lpc = "enumerate"
  /\ \E n \in 0..MaxDomains :
       /\ letterDomains' = n
       /\ enumerated' = [enumerated EXCEPT ![letterIndex] = n]
       /\ lpc' = IF n = 0 THEN "skip" ELSE "batch"
  /\ letterI' = 0
  /\ restMs' = 0
  /\ UNCHANGED <<credsSet, letterIndex, taskResult, bulkSuccessCount,
                 bulkErrorCount, processed, firstFailure>>
  /\ UNCHANGED notBulk

\* scrape.js:131, 806, 904-907 getBrowser is awaited outside the try of
\* scrapeDomains: when it rejects so do scrapeDomains and main, and the caller
\* of main logs the error and calls process.exit(1)
BulkEnumerateReject ==
  /\ lpc = "enumerate"
  /\ lpc' = "fatal"
  /\ UNCHANGED <<credsSet, letterIndex, letterDomains, letterI, taskResult,
                 bulkSuccessCount, bulkErrorCount, enumerated, processed,
                 restMs, firstFailure>>
  /\ UNCHANGED notBulk

\* scrape.js:808-811, 801 no domains: continue, the loop goes to the next
\* letter or ends
BulkSkipEmpty ==
  /\ lpc = "skip"
  /\ IF letterIndex < MaxLetters
       THEN letterIndex' = letterIndex + 1 /\ lpc' = "enumerate"
       ELSE letterIndex' = letterIndex /\ lpc' = "report"
  /\ UNCHANGED <<credsSet, letterDomains, letterI, taskResult,
                 bulkSuccessCount, bulkErrorCount, enumerated, processed,
                 restMs, firstFailure>>
  /\ UNCHANGED notBulk

\* scrape.js:821-833 batch.map creates the task of every domain of the slice
BulkStartBatch ==
  /\ lpc = "batch"
  /\ taskResult' = [d \in Domains |->
                      IF d \in LetterBatch(letterI) THEN "running" ELSE "none"]
  /\ lpc' = "await"
  /\ UNCHANGED <<credsSet, letterIndex, letterDomains, letterI,
                 bulkSuccessCount, bulkErrorCount, enumerated, processed,
                 restMs, firstFailure>>
  /\ UNCHANGED notBulk

\* a task that throws without the try of line 832: Promise.all rejects
AfterTaskThrow_Uncaught == "fatal"

\* scrape.js:846-849 the catch of the task returns { success: false }: the
\* task settles and main goes on awaiting the others
AfterTaskThrow == "await"

\* scrape.js:832-849 the task of domain d ends
BulkTaskEnd(d) ==
  /\ lpc = "await"
  /\ taskResult[d] = "running"
  /\ \E r \in TaskOutcomes :
       /\ taskResult' = [taskResult EXCEPT ![d] = r]
       /\ lpc' = IF r = "threw" THEN AfterTaskThrow ELSE "await"
       /\ firstFailure' =
            IF ~ResultSuccess(r) /\ firstFailure = <<0, 0>> THEN <<letterIndex, d>>
                                                   ELSE firstFailure
  /\ UNCHANGED <<credsSet, letterIndex, letterDomains, letterI,
                 bulkSuccessCount, bulkErrorCount, enumerated, processed, restMs>>
  /\ UNCHANGED notBulk

\* scrape.js:830, 854-865 Promise.all resolves and the results are counted
BulkTally ==
  /\ lpc = "await"
  /\ \A d \in LetterBatch(letterI) : taskResult[d] \notin {"none", "running"}
  /\ bulkSuccessCount' = bulkSuccessCount +
       Cardinality({d \in LetterBatch(letterI) : ResultSuccess(taskResult[d])})
  /\ bulkErrorCount' = bulkErrorCount +
       Cardinality({d \in LetterBatch(letterI) : ~ResultSuccess(taskResult[d])})
  /\ processed' = [processed EXCEPT
                     ![letterIndex] = @ + Cardinality(LetterBatch(letterI))]
  /\ restMs' = 0
  /\ lpc' = IF letterI + ConcurrentDomains < letterDomains
              THEN "batchDelay" ELSE "letterEnd"
  /\ UNCHANGED <<credsSet, letterIndex, letterDomains, letterI, taskResult,
                 enumerated, firstFailure>>
  /\ UNCHANGED notBulk

\* scrape.js:865-872, 821 the delay between batches elapses, i += concurrentDomains
BulkBatchDelay ==
  /\ lpc = "batchDelay"
  /\ restMs' = restMs + DelayBetweenDomains
  /\ letterI' = letterI + ConcurrentDomains
  /\ lpc' = "batch"
  /\ UNCHANGED <<credsSet, letterIndex, letterDomains, taskResult,
                 bulkSuccessCount, bulkErrorCount, enumerated, processed,
                 firstFailure>>
  /\ UNCHANGED notBulk

\* scrape.js:875-885 the letter is complete: the delay between letters
\* elapses unless the letter is the last
BulkLetterEnd ==
  /\ lpc = "letterEnd"
  /\ IF letterIndex < MaxLetters
       THEN /\ restMs' = restMs + DelayBetweenDomains * 2
            /\ letterIndex' = letterIndex + 1
            /\ lpc' = "enumerate"
       ELSE /\ UNCHANGED <<restMs, letterIndex>>
            /\ lpc' = "report"
  /\ UNCHANGED <<credsSet, letterDomains, letterI, taskResult,
                 bulkSuccessCount, bulkErrorCount, enumerated, processed,
                 firstFailure>>
  /\ UNCHANGED notBulk

\* an exit test that never fails the run
ExitsWithError_Never(n) == FALSE

\* scrape.js:893 totalSuccessCount === 0
ExitsWithError(n) == n = 0

\* scrape.js:887-897 the totals are logged; process.exit(1) when no domain
\* succeeded, else main returns
BulkReport ==
  /\ lpc = "report"
  /\ lpc' = IF ExitsWithError(bulkSuccessCount) THEN "exit1" ELSE "returned"
  /\ UNCHANGED <<credsSet, letterIndex, letterDomains, letterI, taskResult,
                 bulkSuccessCount, bulkErrorCount, enumerated, processed,
                 restMs, firstFailure>>
  /\ UNCHANGED notBulk

BulkNext ==
  \/ BulkStart
  \/ BulkEnumerate
  \/ BulkEnumerateReject
  \/ BulkSkipEmpty
  \/ BulkStartBatch
  \/ \E d \in Domains : BulkTaskEnd(d)
  \/ BulkTally
  \/ BulkBatchDelay
  \/ BulkLetterEnd
  \/ BulkReport

-----------------------------------------------------------------------------
(***************************************************************************)
(* Persistence: saveToDatabase (scrape.js 649-696), the POST /coupons      *)
(* handlers (index.js 19-49 and 80-107, part_000 19-36) on the table with   *)
(* one row per (domain, code); the GET /coupons and POST /coupons/scrape    *)
(* handlers (coupons.js 35-91, scrape.js 967-1004 and 1264-1311) on the    *)
(* table with one record per domain                                        *)
(***************************************************************************)
\* a coupon object without a domain property
NoField == "(no domain field)"

StoreDomain == "shop.com"

\* discount, terms and verified as they appear together on one offer
OfferDetails ==
  { [discount |-> "10% off", terms |-> "Terms apply", verified |-> TRUE],
    [discount |-> "20% off", terms |-> "Min. order 50", verified |-> FALSE] }

OfferCodes == {"AUTOMATIC", "SAVE10"}

\* the coupon objects a scrape returns: no domain property
ScrapedOffers ==
  { [code |-> c, discount |-> o.discount, terms |-> o.terms,
     verified |-> o.verified, domain |-> NoField] :
      c \in OfferCodes, o \in OfferDetails }

\* the coupon objects a POST /coupons body may carry: with or without a
\* domain property of their own
PostedOffers ==
  { [code |-> c, discount |-> o.discount, terms |-> o.terms,
     verified |-> o.verified, domain |-> d] :
      c \in OfferCodes, o \in OfferDetails, d \in {NoField, StoreDomain} }

\* the sequences over S of length at most n
SeqsUpTo(S, n) == UNION {[1..k -> S] : k \in 0..n}

\* the object each path builds for the upsert: domain, code, discount, terms,
\* verified (scrape.js 656-662, index.js 34-40 and 89-95, part_000 24-30)
Row(domain, c) ==
  [domain |-> domain, code |-> c.code, discount |-> c.discount,
   terms |-> c.terms, verified |-> c.verified]

\* a Map whose set() overwrites on every coupon: the last offer of a key wins
UniqueStep_KeepLast(domain, acc, c) ==
  IF \E k \in 1..Len(acc) : acc[k].code = c.code
    THEN [k \in 1..Len(acc) |->
            IF acc[k].code = c.code THEN Row(domain, c) ELSE acc[k]]
    ELSE Append(acc, Row(domain, c))

\* scrape.js:654-663, index.js:86-96 one step of the forEach: the key
\* `${domain}:${coupon.code}` is set only when the Map does not have it
UniqueStep(domain, acc, c) ==
  IF \E k \in 1..Len(acc) : acc[k].code = c.code
    THEN acc
    ELSE Append(acc, Row(domain, c))

RECURSIVE UniqueFrom(_, _, _)
\* scrape.js:653-664 the forEach over coupons, acc being the Map's values in
\* insertion order
UniqueFrom(domain, coupons, acc) ==
  IF coupons = <<>>
    THEN acc
    ELSE UniqueFrom(domain, Tail(coupons), UniqueStep(domain, acc, Head(coupons)))

\* scrape.js:651-666, index.js:84-99 Array.from(uniqueMap.values())
UniqueCoupons(domain, coupons) == UniqueFrom(domain, coupons, <<>>)

RECURSIVE ReduceFind(_, _, _)
\* index.js:23-29 coupons.reduce: current is dropped when acc holds a coupon c
\* with c.domain === postDomain && c.code === current.code
ReduceFind(postDomain, coupons, acc) ==
  IF coupons = <<>>
    THEN acc
    ELSE LET current == Head(coupons)
             exists == \E k \in 1..Len(acc) :
                         acc[k].domain = postDomain /\ acc[k].code = current.code
         IN ReduceFind(postDomain, Tail(coupons),
                       IF exists THEN acc ELSE Append(acc, current))

\* index.js:34-40, part_000:24-30 coupons.map(c => ({domain: postDomain, ...}))
MapRows(postDomain, coupons) ==
  [k \in 1..Len(coupons) |-> Row(postDomain, coupons[k])]

\* a table without the unique key (domain, code): nothing ever conflicts
Stored_NoKey(rws, r) == {}

\* the stored row with the key of payload row r, if any
Stored(rws, r) == {x \in rws : x.domain = r.domain /\ x.code = r.code}

RECURSIVE InsertIgnore(_, _, _)
\* the store's upsert with ignoreDuplicates: true (INSERT .. ON CONFLICT DO
\* NOTHING): a payload row is inserted when no row has its key
InsertIgnore(rws, payload, t) ==
  IF payload = <<>>
    THEN rws
    ELSE LET r == Head(payload)
             new == [domain |-> r.domain, code |-> r.code,
                     discount |-> r.discount, terms |-> r.terms,
                     verified |-> r.verified, created_at |-> t]
         IN InsertIgnore(IF Stored(rws, r) = {} THEN rws \cup {new} ELSE rws,
                         Tail(payload), t)

\* the payload names some key twice
HasDuplicateKey(payload) ==
  \E i, j \in 1..Len(payload) :
    i < j /\ payload[i].domain = payload[j].domain /\ payload[i].code = payload[j].code

RECURSIVE InsertUpdate(_, _, _)
\* the store's upsert with ignoreDuplicates: false (INSERT .. ON CONFLICT DO
\* UPDATE): a payload row replaces the columns it carries of the row with its
\* key, or is inserted
InsertUpdate(rws, payload, t) ==
  IF payload = <<>>
    THEN rws
    ELSE LET r == Head(payload)
             old == Stored(rws, r)
             at == IF old = {} THEN t ELSE (CHOOSE x \in old : TRUE).created_at
             new == [domain |-> r.domain, code |-> r.code,
                     discount |-> r.discount, terms |-> r.terms,
                     verified |-> r.verified, created_at |-> at]
         IN InsertUpdate((rws \ old) \cup {new}, Tail(payload), t)

\* the outcomes of supabase.from("coupons").upsert(payload, {onConflict:
\* ["domain", "code"], ignoreDuplicates}): the table after it and the result;
\* the call may fail as a whole, and DO UPDATE refuses a payload that names a
\* key twice
UpsertOutcomes(rws, payload, ignoreDuplicates, t) ==
  {[rows |-> rws, result |-> "error"]} \cup
  IF ignoreDuplicates
    THEN {[rows |-> InsertIgnore(rws, payload, t), result |-> "ok"]}
    ELSE IF HasDuplicateKey(payload)
           THEN {}
           ELSE {[rows |-> InsertUpdate(rws, payload, t), result |-> "ok"]}

\* the clock advances in steps of half a day
HalfDayMs == (CACHE_TTL * 1000) \div 2

\* the tables the row-per-code paths may find: any rows with distinct keys,
\* stored by earlier calls at time 0
PriorRows ==
  { { [domain |-> StoreDomain, code |-> c, discount |-> f[c].discount,
       terms |-> f[c].terms, verified |-> f[c].verified, created_at |-> 0] :
        c \in K } :
      K \in SUBSET OfferCodes, f \in [OfferCodes -> OfferDetails] }

\* one call of a row-per-code persistence path: any prior table, any request
SaveInit ==
  /\ rows \in PriorRows
  /\ records = {}
  /\ clock = HalfDayMs
  /\ reqDomain = StoreDomain
  /\ reqCoupons \in SeqsUpTo(PostedOffers, MaxOffers)
  /\ handlerRun = "none"
  /\ upsertPayload = <<>>
  /\ upsertResult = "none"

\* the store at rest, for the specifications it takes no part in
StoreIdle ==
  /\ rows = {}
  /\ records = {}
  /\ clock = HalfDayMs
  /\ reqDomain = StoreDomain
  /\ reqCoupons = <<>>
  /\ handlerRun = "none"
  /\ upsertPayload = <<>>
  /\ upsertResult = "none"

\* scrape.js:649-696 saveToDatabase(domain, coupons): dedup, return when
\* nothing is left, else one upsert whose error is logged
SaveToDatabase ==
  /\ handlerRun = "none"
  /\ \A k \in 1..Len(reqCoupons) : reqCoupons[k].domain = NoField
  /\ handlerRun' = "saveToDatabase"
  /\ LET uniqueCoupons == UniqueCoupons(reqDomain, reqCoupons)
     IN /\ upsertPayload' = uniqueCoupons
        /\ IF Len(uniqueCoupons) = 0
             THEN /\ upsertResult' = "none"
                  /\ UNCHANGED rows
             ELSE \E o \in UpsertOutcomes(rows, uniqueCoupons, TRUE, clock) :
                    /\ rows' = o.rows
                    /\ upsertResult' = o.result
  /\ UNCHANGED <<records, clock, reqDomain, reqCoupons>>
  /\ UNCHANGED notStore

\* index.js:19-49 POST /coupons: reduce with find, map to rows, upsert with
\* ignoreDuplicates: false
PostCouponsReduce ==
  /\ handlerRun = "none"
  /\ handlerRun' = "postReduce"
  /\ LET uniqueCoupons == ReduceFind(reqDomain, reqCoupons, <<>>)
         payload == MapRows(reqDomain, uniqueCoupons)
     IN /\ upsertPayload' = payload
        /\ \E o \in UpsertOutcomes(rows, payload, FALSE, clock) :
             /\ rows' = o.rows
             /\ upsertResult' = o.result
  /\ UNCHANGED <<records, clock, reqDomain, reqCoupons>>
  /\ UNCHANGED notStore

\* index.js:80-111 POST /coupons: Map keyed `${postDomain}:${coupon.code}`,
\* upsert with ignoreDuplicates: true
PostCouponsMap ==
  /\ handlerRun = "none"
  /\ handlerRun' = "postMap"
  /\ LET uniqueCoupons == UniqueCoupons(reqDomain, reqCoupons)
     IN /\ upsertPayload' = uniqueCoupons
        /\ \E o \in UpsertOutcomes(rows, uniqueCoupons, TRUE, clock) :
             /\ rows' = o.rows
             /\ upsertResult' = o.result
  /\ UNCHANGED <<records, clock, reqDomain, reqCoupons>>
  /\ UNCHANGED notStore

\* part_000:19-36 POST /coupons: the coupons are mapped to rows and upserted
\* as they come
PostCouponsPlain ==
  /\ handlerRun = "none"
  /\ handlerRun' = "postPlain"
  /\ LET payload == MapRows(reqDomain, reqCoupons)
     IN /\ upsertPayload' = payload
        /\ \E o \in UpsertOutcomes(rows, payload, FALSE, clock) :
             /\ rows' = o.rows
             /\ upsertResult' = o.result
  /\ UNCHANGED <<records, clock, reqDomain, reqCoupons>>
  /\ UNCHANGED notStore

SaveNext ==
  \/ SaveToDatabase
  \/ PostCouponsReduce
  \/ PostCouponsMap
  \/ PostCouponsPlain

-----------------------------------------------------------------------------
(***************************************************************************)
(* The handlers of the table with one record per domain                    *)
(***************************************************************************)
\* the offer lists a scrape may return to a handler
ScrapeResults == SeqsUpTo(ScrapedOffers, MaxScraped)

\* coupons.js:44-51, scrape.js:1273-1280 the records of the domain the query
\* returns: updated_at > now - CACHE_TTL * 1000
FreshRecords(d) ==
  {r \in records : r.domain = d /\ r.updated_at > clock - CACHE_TTL * 1000}

\* the store's upsert of one record with onConflict: "domain": the record of
\* the domain is replaced
UpsertRecord(recs, d, coupons, t) ==
  {r \in recs : r.domain # d} \cup
  {[domain |-> d, coupons |-> coupons, updated_at |-> t]}

CacheInit ==
  /\ rows = {}
  /\ records = {}
  /\ clock = HalfDayMs
  /\ reqDomain = StoreDomain
  /\ reqCoupons = <<>>
  /\ handlerRun = "none"
  /\ upsertPayload = <<>>
  /\ upsertResult = "none"

\* time passes
CacheTick ==
  /\ clock < HalfDayMs * (MaxHalfDays + 1)
  /\ clock' = clock + HalfDayMs
  /\ UNCHANGED <<rows, records, reqDomain, reqCoupons, handlerRun,
                 upsertPayload, upsertResult>>
  /\ UNCHANGED notStore

\* coupons.js:42-56, scrape.js:1271-1285 GET /coupons finds a fresh record and
\* answers with its coupons
GetCouponsHit ==
  /\ FreshRecords(reqDomain) # {}
  /\ handlerRun' = "getHit"
  /\ reqCoupons' = <<>>
  /\ upsertResult' = "none"
  /\ UNCHANGED <<rows, records, clock, reqDomain, upsertPayload>>
  /\ UNCHANGED notStore

\* coupons.js:58-85, scrape.js:1287-1306 GET /coupons finds no fresh record:
\* the scrape result is upserted as the domain's record, whatever its length;
\* an upsert error is logged
GetCouponsScrape ==
  /\ FreshRecords(reqDomain) = {}
  /\ \E coupons \in ScrapeResults, ok \in BOOLEAN :
       /\ reqCoupons' = coupons
       /\ upsertResult' = IF ok THEN "ok" ELSE "error"
       /\ records' = IF ok THEN UpsertRecord(records, reqDomain, coupons, clock)
                          ELSE records
  /\ handlerRun' = "getScraped"
  /\ UNCHANGED <<rows, clock, reqDomain, upsertPayload>>
  /\ UNCHANGED notStore

\* coupons.js:54, 58-85, scrape.js:1283, 1287-1306 the query of GET /coupons
\* returns an error: the handler scrapes and upserts as if nothing were cached
GetCouponsQueryError ==
  /\ \E coupons \in ScrapeResults, ok \in BOOLEAN :
       /\ reqCoupons' = coupons
       /\ upsertResult' = IF ok THEN "ok" ELSE "error"
       /\ records' = IF ok THEN UpsertRecord(records, reqDomain, coupons, clock)
                          ELSE records
  /\ handlerRun' = "getQueryError"
  /\ UNCHANGED <<rows, clock, reqDomain, upsertPayload>>
  /\ UNCHANGED notStore

\* coupons.js:59-67, 86-90 the overall timeout wins the race: the handler
\* answers with an empty list and writes nothing
GetCouponsTimeout ==
  /\ handlerRun' = "getTimeout"
  /\ reqCoupons' = <<>>
  /\ upsertResult' = "none"
  /\ UNCHANGED <<rows, records, clock, reqDomain, upsertPayload>>
  /\ UNCHANGED notStore

\* scrape.js:967-1004 POST /coupons/scrape: after the 202 the scrape result is
\* upserted as the domain's record, whatever its length
PostScrapeRecord ==
  /\ \E coupons \in ScrapeResults, ok \in BOOLEAN :
       /\ reqCoupons' = coupons
       /\ upsertResult' = IF ok THEN "ok" ELSE "error"
       /\ records' = IF ok THEN UpsertRecord(records, reqDomain, coupons, clock)
                          ELSE records
  /\ handlerRun' = "scrapeStored"
  /\ UNCHANGED <<rows, clock, reqDomain, upsertPayload>>
  /\ UNCHANGED notStore

CacheNext ==
  \/ CacheTick
  \/ GetCouponsHit
  \/ GetCouponsScrape
  \/ GetCouponsQueryError
  \/ GetCouponsTimeout
  \/ PostScrapeRecord

-----------------------------------------------------------------------------
(***************************************************************************)
(* saveToDatabase called twice with the same input (scrape.js 649-696),    *)
(* and the lookup of the table with one row per (domain, code)             *)
(* (index.js 7-17 and 65-78)                                                *)
(***************************************************************************)
\* index.js:13, 73 the window of the GET query, in ms
SevenDaysMs == 7 * 24 * 60 * 60 * 1000

\* the times at which a call or request may happen
ClockValues ==
  {HalfDayMs * k : k \in 1..MaxHalfDays} \cup {SevenDaysMs, SevenDaysMs + HalfDayMs}

\* index.js:9-13, 67-74 the GET query: code, discount, terms, verified of the
\* rows of the domain with created_at >= now - 7 days
LookupRows(rws, d, t) ==
  { [code |-> x.code, discount |-> x.discount, terms |-> x.terms,
     verified |-> x.verified] :
      x \in {y \in rws : y.domain = d /\ y.created_at >= t - SevenDaysMs} }

\* any prior table, stored at time 0, and the offers of one scrape
ResaveInit ==
  /\ rows \in PriorRows
  /\ records = {}
  /\ clock = HalfDayMs
  /\ reqDomain = StoreDomain
  /\ reqCoupons \in SeqsUpTo(ScrapedOffers, MaxOffers)
  /\ handlerRun = "none"
  /\ upsertPayload = <<>>
  /\ upsertResult = "none"

\* time passes between the calls
SaveTick ==
  /\ \E t \in ClockValues : t > clock /\ clock' = t
  /\ UNCHANGED <<rows, records, reqDomain, reqCoupons, handlerRun,
                 upsertPayload, upsertResult>>
  /\ UNCHANGED notStore

\* scrape.js:649-696 saveToDatabase(domain, coupons) called again with the
\* input of the call before
SaveToDatabaseAgain ==
  /\ handlerRun = "saveToDatabase"
  /\ handlerRun' = "saveToDatabaseAgain"
  /\ LET uniqueCoupons == UniqueCoupons(reqDomain, reqCoupons)
     IN /\ upsertPayload' = uniqueCoupons
        /\ IF Len(uniqueCoupons) = 0
             THEN /\ upsertResult' = "none"
                  /\ UNCHANGED rows
             ELSE \E o \in UpsertOutcomes(rows, uniqueCoupons, TRUE, clock) :
                    /\ rows' = o.rows
                    /\ upsertResult' = o.result
  /\ UNCHANGED <<records, clock, reqDomain, reqCoupons>>
  /\ UNCHANGED notStore

ResaveNext ==
  \/ SaveTick
  \/ SaveToDatabase
  \/ SaveToDatabaseAgain

-----------------------------------------------------------------------------
(***************************************************************************)
(* The maintenance handler (cleanup.js 5-14) on the table with one row per *)
(* (domain, code)                                                          *)
(***************************************************************************)
\* a second domain: the delete has no domain filter
OtherDomain == "other.com"

\* the tables the handler may find: rows of both domains with distinct keys,
\* created at time 0 or half a day later
AgedRows ==
  { { [domain |-> k[1], code |-> k[2], discount |-> "10% off",
       terms |-> "Terms apply", verified |-> TRUE, created_at |-> f[k]] :
        k \in K } :
      K \in SUBSET ({StoreDomain, OtherDomain} \X OfferCodes),
      f \in [{StoreDomain, OtherDomain} \X OfferCodes -> {0, HalfDayMs}] }

\* a delete that takes the row at the end of the window too
Expired_Inclusive(x, t) == x.created_at <= t - SevenDaysMs

\* cleanup.js:10 .lt('created_at', new Date(Date.now() - 7 * 24 * 60 * 60 * 1000))
Expired(x, t) == x.created_at < t - SevenDaysMs

CleanupInit ==
  /\ rows \in AgedRows
  /\ records = {}
  /\ clock = HalfDayMs
  /\ reqDomain = StoreDomain
  /\ reqCoupons = <<>>
  /\ handlerRun = "none"
  /\ upsertPayload = <<>>
  /\ upsertResult = "none"
  /\ deletedRows = {}

\* no delete, for the specifications the maintenance handler takes no part in
CleanupIdle == deletedRows = {}

\* cleanup.js:7-13 the delete: on success the expired rows are gone, on an
\* error the table is as it was and the handler answers 500
CleanupDelete ==
  /\ handlerRun = "none"
  /\ handlerRun' = "cleanup"
  /\ \/ /\ upsertResult' = "ok"
        /\ deletedRows' = {x \in rows : Expired(x, clock)}
        /\ rows' = rows \ deletedRows'
     \/ /\ upsertResult' = "error"
        /\ deletedRows' = {}
        /\ rows' = rows
  /\ UNCHANGED <<records, clock, reqDomain, reqCoupons, upsertPayload>>
  /\ UNCHANGED notCleanup

\* time passes before the call
CleanupTick ==
  /\ handlerRun = "none"
  /\ \E t \in ClockValues : t > clock /\ clock' = t
  /\ UNCHANGED <<rows, records, reqDomain, reqCoupons, handlerRun,
                 upsertPayload, upsertResult, deletedRows>>
  /\ UNCHANGED notCleanup

CleanupNext ==
  \/ CleanupTick
  \/ CleanupDelete

-----------------------------------------------------------------------------
(***************************************************************************)
(* saveToDatabase (scrape.js 649-696) step by step, with the failures of   *)
(* its upsert                                                              *)
(***************************************************************************)
SaveStepsInit ==
  /\ rows \in PriorRows
  /\ records = {}
  /\ clock = HalfDayMs
  /\ reqDomain = StoreDomain
  /\ reqCoupons \in SeqsUpTo(ScrapedOffers, MaxOffers)
  /\ handlerRun = "none"
  /\ upsertPayload = <<>>
  /\ upsertResult = "none"
  /\ spc = "start"
  /\ upsertAttempts = 0

\* no call, for the specifications the steps take no part in
SaveStepsIdle ==
  /\ spc = "idle"
  /\ upsertAttempts = 0

\* scrape.js:651-677 the rows are built in uniqueMap; with none the call
\* returns, else it enters the try
SaveBuild ==
  /\ spc = "start"
  /\ upsertPayload' = UniqueCoupons(reqDomain, reqCoupons)
  /\ spc' = IF Len(upsertPayload') = 0 THEN "returned" ELSE "upsert"
  /\ handlerRun' = "saveToDatabase"
  /\ UNCHANGED <<rows, records, clock, reqDomain, reqCoupons, upsertResult,
                 upsertAttempts>>
  /\ UNCHANGED notSaveSteps

\* a call without the try of line 674: the exception leaves saveToDatabase
AfterUpsertException_Uncaught == "raised"

\* scrape.js:693-695 the catch logs the exception
AfterUpsertException == "logException"

\* scrape.js:686-688 the error of the result is logged
AfterUpsertError == "logError"

\* scrape.js:679-684 the upsert is awaited: it resolves with or without an
\* error, or it rejects
SaveUpsert ==
  /\ spc = "upsert"
  /\ upsertAttempts' = upsertAttempts + 1
  /\ \/ \E o \in UpsertOutcomes(rows, upsertPayload, TRUE, clock) :
          /\ rows' = o.rows
          /\ upsertResult' = o.result
          /\ spc' = IF o.result = "error" THEN AfterUpsertError ELSE "logOk"
     \/ /\ rows' = rows
        /\ upsertResult' = "exception"
        /\ spc' = AfterUpsertException
  /\ UNCHANGED <<records, clock, reqDomain, reqCoupons, handlerRun,
                 upsertPayload>>
  /\ UNCHANGED notSaveSteps

\* scrape.js:687-695 the log is written (log swallows its own failures,
\* scrape.js:18-26) and the call returns
SaveLogged ==
  /\ spc \in {"logOk", "logError", "logException"}
  /\ spc' = "returned"
  /\ UNCHANGED <<rows, records, clock, reqDomain, reqCoupons, handlerRun,
                 upsertPayload, upsertResult, upsertAttempts>>
  /\ UNCHANGED notSaveSteps

SaveStepsNext ==
  \/ SaveBuild
  \/ SaveUpsert
  \/ SaveLogged

-----------------------------------------------------------------------------
(***************************************************************************)
(* The fields of a coupon object from the listing to the store, on every   *)
(* path that persists a scrape: scrapeCoupons of scrape.js 220-413 with    *)
(* saveToDatabase, scrapeCoupons of scrape.js 1007-1130 with the upsert of *)
(* scrape.js 987-996, scrapeCoupons of scrape.js 1346-1446 with the upsert *)
(* of scrape.js 1291-1300, scrapeCoupons of coupons.js 126-239 with the    *)
(* upsert of coupons.js 70-79.  An object is a function from its property  *)
(* names to their values.                                                  *)
(***************************************************************************)
PersistPaths ==
  {"scrape.js 220 saveToDatabase", "scrape.js 1007 upsert 987",
   "scrape.js 1346 upsert 1291", "coupons.js 126 upsert 70"}

\* the properties every listing gives a coupon object (scrape.js 344-350,
\* 1078-1084, 1389-1396, coupons.js 214-221)
ListedCommon(k, code) ==
  [f \in {"id", "code", "discount", "terms", "verified", "source"} |->
     CASE f = "id" -> k
       [] f = "code" -> code
       [] f = "discount" -> "10% off"
       [] f = "terms" -> "Terms apply"
       [] f = "verified" -> TRUE
       [] f = "source" -> "CouponFollow"]

\* the object with the property f set to v
WithField(o, f, v) == [g \in DOMAIN o \cup {f} |-> IF g = f THEN v ELSE o[g]]

\* const { f, ...rest } = o
WithoutField(o, f) == [g \in DOMAIN o \ {f} |-> o[g]]

\* scrape.js:344-352, 1078-1086, 1389-1398, coupons.js 214-221 the object the
\* listing pushes for its k-th coupon
Listed(path, k, code, hasUrl) ==
  IF path = "scrape.js 220 saveToDatabase"
    THEN WithField(ListedCommon(k, code), "elementId", <<"coupon", k>>)
  ELSE IF path = "coupons.js 126 upsert 70"
    THEN ListedCommon(k, code)
  ELSE WithField(ListedCommon(k, code), "modalUrl",
                 IF hasUrl THEN <<"modal", k>> ELSE <<>>)

\* scrape.js:410-413, 1115-1120 and 1141, 1407, coupons.js 230 the object
\* scrapeCoupons returns for a listed one (its code apart)
Returned(path, o) ==
  IF path = "scrape.js 220 saveToDatabase" THEN WithoutField(o, "elementId")
  ELSE IF path = "coupons.js 126 upsert 70" THEN o
  ELSE WithoutField(o, "modalUrl")

\* scrape.js:656-662 the row saveToDatabase builds; scrape.js 987-996,
\* 1291-1300, coupons.js 70-79 the offer as part of the record's coupons
Persisted(path, o) ==
  IF path = "scrape.js 220 saveToDatabase"
    THEN [f \in {"domain", "code", "discount", "terms", "verified"} |->
            IF f = "domain" THEN StoreDomain ELSE o[f]]
    ELSE o

FieldsInit ==
  /\ persistPath \in PersistPaths
  /\ \E n \in 0..MaxListed :
       \E c \in [1..n -> OfferCodes \X BOOLEAN] :
         scrapedList = [k \in 1..n |-> Listed(persistPath, k, c[k][1], c[k][2])]
  /\ storedObjects = {}
  /\ fpc = "listed"

\* no scrape, for the specifications this part takes no part in
FieldsIdle ==
  /\ persistPath = "scrape.js 220 saveToDatabase"
  /\ scrapedList = <<>>
  /\ storedObjects = {}
  /\ fpc = "stored"

\* scrapeCoupons returns the coupon objects
FieldsReturn ==
  /\ fpc = "listed"
  /\ scrapedList' =
       [k \in 1..Len(scrapedList) |-> Returned(persistPath, scrapedList[k])]
  /\ fpc' = "scraped"
  /\ UNCHANGED <<persistPath, storedObjects>>
  /\ UNCHANGED notFields

\* the caller writes them to the store
FieldsPersist ==
  /\ fpc = "scraped"
  /\ storedObjects' =
       {Persisted(persistPath, scrapedList[k]) : k \in 1..Len(scrapedList)}
  /\ fpc' = "stored"
  /\ UNCHANGED <<persistPath, scrapedList>>
  /\ UNCHANGED notFields

FieldsNext ==
  \/ FieldsReturn
  \/ FieldsPersist

-----------------------------------------------------------------------------
(***************************************************************************)
(* The setup of a page from browser.newPage() to its first navigation, for *)
(* every place of the code that opens a page.  Pages of concurrent scrapes *)
(* are set up side by side.                                                *)
(***************************************************************************)
SetupPages == 1..MaxSetupPages

\* the calls each place makes on its new page, in order, up to the first
\* page.goto: the enumerator page (scrape.js 134-177), the listing page
\* (229-279), a pooled detail page (450-502), the listing page and a detail
\* page of the queue variant (1016-1037, 1145-1170), the page of the variant
\* of scrape.js 1346 (1359-1367) and the page of coupons.js (149-173)
PageScript(kind) ==
  CASE kind = "scrapeDomains 134" ->
         <<"setUserAgent", "setJavaScriptEnabled", "setExtraHTTPHeaders",
           "setRequestInterception", "evaluateOnNewDocument", "goto">>
    [] kind = "scrapeCoupons 229" ->
         <<"setUserAgent", "setJavaScriptEnabled", "setExtraHTTPHeaders",
           "setRequestInterception", "evaluateOnNewDocument", "goto">>
    [] kind = "processModalBatch 450" ->
         <<"setUserAgent", "setJavaScriptEnabled", "evaluateOnNewDocument",
           "setRequestInterception", "goto">>
    [] kind = "scrapeCoupons 1016" ->
         <<"setJavaScriptEnabled", "setRequestInterception", "setUserAgent",
           "goto">>
    [] kind = "processBatch 1145" ->
         <<"setRequestInterception", "goto">>
    [] kind = "scrapeCoupons 1359" ->
         <<"setJavaScriptEnabled", "setUserAgent", "goto">>
    [] kind = "coupons.js 149" ->
         <<"setRequestInterception", "setUserAgent", "goto">>

PageKinds ==
  {"scrapeDomains 134", "scrapeCoupons 229", "processModalBatch 450",
   "scrapeCoupons 1016", "processBatch 1145", "scrapeCoupons 1359",
   "coupons.js 149"}

PagesInit ==
  /\ pageKind \in [SetupPages -> PageKinds]
  /\ pageCalls = [p \in SetupPages |-> <<>>]
  /\ pageState = [p \in SetupPages |-> "open"]

\* no page, for the specifications the page setup takes no part in
PagesIdle ==
  /\ pageKind = [p \in SetupPages |-> "scrapeDomains 134"]
  /\ pageCalls = [p \in SetupPages |-> <<>>]
  /\ pageState = [p \in SetupPages |-> "idle"]

\* the next call of the script of page p resolves
PageCall(p) ==
  /\ pageState[p] = "open"
  /\ Len(pageCalls[p]) < Len(PageScript(pageKind[p]))
  /\ pageCalls' = [pageCalls EXCEPT
                     ![p] = Append(@, PageScript(pageKind[p])[Len(@) + 1])]
  /\ UNCHANGED <<pageKind, pageState>>
  /\ UNCHANGED notPages

\* the next call of the script of page p rejects: the setup ends there
PageCallRejects(p) ==
  /\ pageState[p] = "open"
  /\ Len(pageCalls[p]) < Len(PageScript(pageKind[p]))
  /\ pageState' = [pageState EXCEPT ![p] = "threw"]
  /\ UNCHANGED <<pageKind, pageCalls>>
  /\ UNCHANGED notPages

\* whether the code closes a page of this kind: call is the call that
\* rejected, or "none" when every call of the script resolved.
\* scrape.js:206, 368, 636-640 and 1195 close the page after its work, and
\* the browser.close() of scrape.js 1443 and coupons.js 236 closes the pages of
\* its browser in a finally; the page of scrape.js 1016 is closed nowhere.
\* After a call that rejected: the catches of scrape.js 208-211 and 414-429
\* do not close the page; a rejected setup call in the pool's loop (450-483)
\* leaves processModalBatch before the close of 636-640, a rejected goto is
\* caught in the task (622-627) and the close follows; in processBatch a
\* rejected goto reaches the finally of 1193-1199, a rejected
\* setRequestInterception only the catch of 1204-1207.
ClosesPage(kind, call) ==
  IF kind \in {"scrapeCoupons 1359", "coupons.js 149"} THEN TRUE
  ELSE IF kind = "scrapeCoupons 1016" THEN FALSE
  ELSE IF call = "none" THEN TRUE
  ELSE kind \in {"processModalBatch 450", "processBatch 1145"} /\ call = "goto"

\* the call of page p that rejected, "none" when the script ran through
RejectedCall(p) ==
  IF pageState[p] = "threw"
    THEN PageScript(pageKind[p])[Len(pageCalls[p]) + 1] ELSE "none"

\* the page's work is over and the code closes it
PageClose(p) ==
  /\ \/ pageState[p] = "threw"
     \/ pageState[p] = "open" /\ Len(pageCalls[p]) = Len(PageScript(pageKind[p]))
  /\ ClosesPage(pageKind[p], RejectedCall(p))
  /\ pageState' = [pageState EXCEPT ![p] = "closed"]
  /\ UNCHANGED <<pageKind, pageCalls>>
  /\ UNCHANGED notPages

PagesNext ==
  \/ \E p \in SetupPages : PageCall(p)
  \/ \E p \in SetupPages : PageCallRejects(p)
  \/ \E p \in SetupPages : PageClose(p)

-----------------------------------------------------------------------------
(***************************************************************************)
(* One request to an API handler: GET /coupons (coupons.js 35-91,          *)
(* scrape.js 1264-1311, index.js 65-78) and POST /coupons/scrape            *)
(* (scrape.js 701-744 and 967-1004)                                        *)
(***************************************************************************)
GetRoutes == {"coupons.js GET", "scrape.js GET", "index.js GET"}

PostScrapeRoutes == {"scrape.js POST 701", "scrape.js POST 967"}

\* the GET handlers of the table with one record per domain
RecordGetRoutes == {"coupons.js GET", "scrape.js GET"}

\* res.status(status).json(body): kind tells what the body carries
Response(status, kind, coupons) ==
  [status |-> status, kind |-> kind, coupons |-> coupons]

\* the record and the row the store may hold for the domain, written at time 0
PriorRecord ==
  [domain |-> StoreDomain,
   coupons |-> <<[code |-> "SAVE10", discount |-> "10% off",
                  terms |-> "Terms apply", verified |-> TRUE,
                  domain |-> NoField]>>,
   updated_at |-> 0]

PriorRow ==
  [domain |-> StoreDomain, code |-> "SAVE10", discount |-> "10% off",
   terms |-> "Terms apply", verified |-> TRUE, created_at |-> 0]

RequestInit ==
  /\ route \in GetRoutes \cup PostScrapeRoutes
  /\ reqMethod \in {"GET", "POST"}
  /\ route \in GetRoutes => reqMethod = "GET"
  /\ reqHasDomain \in BOOLEAN
  /\ route = "index.js GET" => reqHasDomain
  /\ configured \in BOOLEAN
  /\ route # "scrape.js POST 701" => configured
  /\ hpc = "start"
  /\ responses = <<>>
  /\ scrapeCalls = 0
  /\ storeWrites = 0
  /\ servedFrom = {}
  /\ scraped = <<>>
  /\ rows \in {{}, {PriorRow}}
  /\ records \in {{}, {PriorRecord}}
  /\ clock \in ClockValues
  /\ reqDomain = StoreDomain
  /\ reqCoupons = <<>>
  /\ handlerRun = "none"
  /\ upsertPayload = <<>>
  /\ upsertResult = "none"

\* no request, for the specifications the handlers take no part in
RequestIdle ==
  /\ route = "index.js GET"
  /\ reqMethod = "GET"
  /\ reqHasDomain = TRUE
  /\ configured = TRUE
  /\ hpc = "ended"
  /\ responses = <<>>
  /\ scrapeCalls = 0
  /\ storeWrites = 0
  /\ servedFrom = {}
  /\ scraped = <<>>

\* scrape.js:703-722, 969-977 the checks before the 202: wrong method, missing
\* domain, missing credentials (only the handler of line 701 checks them)
PostScrapeError ==
  IF reqMethod # "POST" THEN 405
  ELSE IF ~reqHasDomain THEN 400
  ELSE IF route = "scrape.js POST 701" /\ ~configured THEN 500
  ELSE 0

\* coupons.js:38-40, scrape.js:703-722, 969-977, 1267-1269 the request is
\* refused with an error response
ReqReject ==
  /\ hpc = "start"
  /\ \/ /\ route \in PostScrapeRoutes
        /\ PostScrapeError # 0
        /\ responses' = Append(responses, Response(PostScrapeError, "error", <<>>))
     \/ /\ route \in RecordGetRoutes
        /\ ~reqHasDomain
        /\ responses' = Append(responses, Response(400, "error", <<>>))
  /\ hpc' = "ended"
  /\ UNCHANGED <<route, reqMethod, reqHasDomain, configured, scrapeCalls,
                 storeWrites, servedFrom, scraped>>
  /\ UNCHANGED storeVars
  /\ UNCHANGED notRequest

\* scrape.js:727, 980 res.status(202).json({ message: "Scraping started" })
PostAccept ==
  /\ hpc = "start"
  /\ route \in PostScrapeRoutes
  /\ PostScrapeError = 0
  /\ responses' = Append(responses, Response(202, "accepted", <<>>))
  /\ hpc' = "scrape"
  /\ UNCHANGED <<route, reqMethod, reqHasDomain, configured, scrapeCalls,
                 storeWrites, servedFrom, scraped>>
  /\ UNCHANGED storeVars
  /\ UNCHANGED notRequest

\* a hit that does not return: the handler goes on to scrape
AfterHit_FallThrough == "scrape"

\* coupons.js:55, scrape.js:1284 return res.status(200).json(...)
AfterHit == "ended"

\* coupons.js:42-56, scrape.js:1271-1285 the query returns a fresh record:
\* the handler answers with cachedCoupons[0].coupons
GetHit ==
  /\ hpc = "start"
  /\ route \in RecordGetRoutes
  /\ reqHasDomain
  /\ FreshRecords(reqDomain) # {}
  /\ LET r == CHOOSE x \in FreshRecords(reqDomain) : TRUE
     IN /\ responses' = Append(responses, Response(200, "cached", r.coupons))
        /\ servedFrom' = {r.updated_at}
  /\ hpc' = AfterHit
  /\ UNCHANGED <<route, reqMethod, reqHasDomain, configured, scrapeCalls,
                 storeWrites, scraped>>
  /\ UNCHANGED storeVars
  /\ UNCHANGED notRequest

\* coupons.js:54-58, scrape.js:1283-1287 the query returns an error or no fresh
\* record: the handler goes on to scrape
GetMiss ==
  /\ hpc = "start"
  /\ route \in RecordGetRoutes
  /\ reqHasDomain
  /\ \E error \in BOOLEAN : error \/ FreshRecords(reqDomain) = {}
  /\ hpc' = "scrape"
  /\ UNCHANGED <<route, reqMethod, reqHasDomain, configured, responses,
                 scrapeCalls, storeWrites, servedFrom, scraped>>
  /\ UNCHANGED storeVars
  /\ UNCHANGED notRequest

\* index.js:65-78 GET: the rows of the last 7 days, or the query's error
\* message with status 500
IndexGet ==
  /\ hpc = "start"
  /\ route = "index.js GET"
  /\ \E error \in BOOLEAN :
       IF error
         THEN /\ responses' = Append(responses, Response(500, "error", <<>>))
              /\ UNCHANGED servedFrom
         ELSE /\ responses' =
                   Append(responses,
                          Response(200, "cached", LookupRows(rows, reqDomain, clock)))
              /\ servedFrom' =
                   {y.created_at : y \in {x \in rows :
                        x.domain = reqDomain /\ x.created_at >= clock - SevenDaysMs}}
  /\ hpc' = "ended"
  /\ UNCHANGED <<route, reqMethod, reqHasDomain, configured, scrapeCalls,
                 storeWrites, scraped>>
  /\ UNCHANGED storeVars
  /\ UNCHANGED notRequest

\* coupons.js:64-65, scrape.js:731, 984, 1288 scrapeCoupons(domain) is called
ScrapeStart ==
  /\ hpc = "scrape"
  /\ scrapeCalls' = scrapeCalls + 1
  /\ hpc' = "scraping"
  /\ UNCHANGED <<route, reqMethod, reqHasDomain, configured, responses,
                 storeWrites, servedFrom, scraped>>
  /\ UNCHANGED storeVars
  /\ UNCHANGED notRequest

\* scrapeCoupons resolves with its offers, [] when it caught an error
\* (coupons.js:231-233, scrape.js:414-428, 1126-1128); scrape.js:733-740 the
\* handler of line 701 saves only a non-empty list
ScrapeDone ==
  /\ hpc = "scraping"
  /\ \E coupons \in ScrapeResults :
       /\ scraped' = coupons
       /\ hpc' = IF route = "scrape.js POST 701"
                   THEN (IF Len(coupons) > 0 THEN "save" ELSE "ended")
                   ELSE "store"
  /\ UNCHANGED <<route, reqMethod, reqHasDomain, configured, responses,
                 scrapeCalls, storeWrites, servedFrom>>
  /\ UNCHANGED storeVars
  /\ UNCHANGED notRequest

\* the handler's catch after a rejected scrape: coupons.js:86-90 answers 200
\* with an empty list, scrape.js:1307-1310 answers 500 with error.message
ScrapeCatchResponse ==
  IF route = "coupons.js GET"
    THEN Response(200, "empty", <<>>)
    ELSE Response(500, "error", <<>>)

\* scrapeCoupons rejects: scrape.js:1438-1440 rethrows, coupons.js:234-238 the
\* browser.close() of its finally fails; coupons.js:59-67 the overall timeout
\* wins the race
ScrapeThrow ==
  /\ hpc = "scraping"
  /\ route \in RecordGetRoutes
  /\ responses' = Append(responses, ScrapeCatchResponse)
  /\ hpc' = "ended"
  /\ UNCHANGED <<route, reqMethod, reqHasDomain, configured, scrapeCalls,
                 storeWrites, servedFrom, scraped>>
  /\ UNCHANGED storeVars
  /\ UNCHANGED notRequest

\* a pipeline whose outcome is written to res
PipelineEndResponses_Surfaced(resps, ok) ==
  Append(resps, IF ok THEN Response(200, "scraped", <<>>)
                      ELSE Response(500, "error", <<>>))

\* scrape.js:735-743, 998-1003 the outcome of the pipeline is logged; nothing
\* is written to res
PipelineEndResponses(resps, ok) == resps

\* coupons.js:70-85, scrape.js:987-996, 1291-1306 the scrape result is upserted
\* as the domain's record; a GET handler logs an upsert error and answers with
\* the scraped offers
StoreRecord ==
  /\ hpc = "store"
  /\ storeWrites' = storeWrites + 1
  /\ \E ok \in BOOLEAN :
       /\ records' = IF ok THEN UpsertRecord(records, reqDomain, scraped, clock)
                          ELSE records
       /\ responses' =
            IF route \in RecordGetRoutes
              THEN Append(responses, Response(200, "scraped", scraped))
              ELSE PipelineEndResponses(responses, ok)
  /\ hpc' = "ended"
  /\ UNCHANGED <<route, reqMethod, reqHasDomain, configured, scrapeCalls,
                 servedFrom, scraped>>
  /\ UNCHANGED <<rows, clock, reqDomain, reqCoupons, handlerRun, upsertPayload,
                 upsertResult>>
  /\ UNCHANGED notRequest

\* scrape.js:734-737 saveToDatabase(domain, coupons, supabase) of the handler
\* of line 701
SaveRows ==
  /\ hpc = "save"
  /\ storeWrites' = storeWrites + 1
  /\ \E o \in UpsertOutcomes(rows, UniqueCoupons(reqDomain, scraped), TRUE, clock) :
       /\ rows' = o.rows
       /\ responses' = PipelineEndResponses(responses, o.result = "ok")
  /\ hpc' = "ended"
  /\ UNCHANGED <<route, reqMethod, reqHasDomain, configured, scrapeCalls,
                 servedFrom, scraped>>
  /\ UNCHANGED <<records, clock, reqDomain, reqCoupons, handlerRun,
                 upsertPayload, upsertResult>>
  /\ UNCHANGED notRequest

RequestNext ==
  \/ ReqReject
  \/ PostAccept
  \/ GetHit
  \/ GetMiss
  \/ IndexGet
  \/ ScrapeStart
  \/ ScrapeDone
  \/ ScrapeThrow
  \/ StoreRecord
  \/ SaveRows

-----------------------------------------------------------------------------
(***************************************************************************)
(* The resolution phase of one attempt of scrapeCoupons: the batch loop    *)
(* with processModalBatch (scrape.js 364-413, 440-641) and the batch loop   *)
(* with processBatch (scrape.js 1092-1125, 1133-1232)                       *)
(***************************************************************************)
Candidates == 1..MaxCandidates

\* the code a candidate carries inline, and the code its detail page shows
InlineCode(k) == 100 + k
DetailCode(k) == k

\* scrape.js:344-354, 1078-1086 the object pushed for the k-th coupon card:
\* details stands for discount, terms, verified and source, localId for the
\* internal property (elementId, modalUrl), url for the data-modal attribute
Candidate(k, code, url) ==
  [id |-> k, code |-> code, details |-> <<"offer", k>>,
   localId |-> <<"coupon", k>>, url |-> url]

\* the listings a page may yield
Listings ==
  UNION { { [k \in 1..n |->
               Candidate(k, IF f[k][1] THEN InlineCode(k) ELSE AUTOMATIC, f[k][2])] :
              f \in [1..n -> BOOLEAN \X BOOLEAN] } :
          n \in 0..MaxCandidates }

\* a filter that looks at the detail URL only
IsPending_AnyUrl(c) == c.url

\* scrape.js:378, 1095 item.url && item.coupon.code === "AUTOMATIC"
IsPending(c) == c.url /\ c.code = AUTOMATIC

\* scrape.js:372-378, 1094-1096 pendingCoupons
PendingCoupons ==
  LET Test(c) == IsPending(c) IN SelectSeq(basicCoupons, Test)

\* scrape.js:381 Math.ceil(totalCoupons / CONFIG.batchSize); scrape.js:1099
TotalBatches == (Len(PendingCoupons) + BatchSize - 1) \div BatchSize

Batches == 1..((MaxCandidates + BatchSize - 1) \div BatchSize)

\* scrape.js:389-391, 1100 the ids of the candidates of batch b
BatchIds(b) ==
  {PendingCoupons[j].id :
     j \in {i \in 1..Len(PendingCoupons) :
              (b - 1) * BatchSize < i /\ i <= b * BatchSize}}

\* scrape.js:410-413, 1118, 1141 the offer without its internal properties
Strip(c) == [id |-> c.id, code |-> c.code, details |-> c.details]

\* results left in completion order
SortById_Unsorted(s) == s

RECURSIVE SortById(_)
\* scrape.js:1123 completeCoupons.sort((a, b) => a.id - b.id)
SortById(s) ==
  IF s = <<>>
    THEN <<>>
    ELSE LET m == CHOOSE i \in 1..Len(s) : \A j \in 1..Len(s) : s[i].id <= s[j].id
         IN <<s[m]>> \o SortById(SubSeq(s, 1, m - 1) \o SubSeq(s, m + 1, Len(s)))

\* scrape.js:1115-1120 the candidates that need no resolution, stripped
Bypassed ==
  LET Test(c) == ~IsPending(c)
      rest == SelectSeq(basicCoupons, Test)
  IN [i \in 1..Len(rest) |-> Strip(rest[i])]

\* the pooled pages of batch b still open
OpenPages(b) == {p \in Pages : poolPages[b][p] = "open"}

\* a pool of the full limit whatever the number of items
ResolvePoolTarget_Limit(b) == MaxConcurrentPages

\* scrape.js:402, 449 Math.min(batchItems.length, concurrentLimit)
ResolvePoolTarget(b) == Min(Cardinality(BatchIds(b)), MaxConcurrentPages)

ResolveInit ==
  /\ variant \in {"pool", "queue"}
  /\ basicCoupons \in Listings
  /\ rpc = "loop"
  /\ batchIndex = 0
  /\ cst = [k \in Candidates |-> "idle"]
  /\ attempts = [k \in Candidates |-> 0]
  /\ navs = [k \in Candidates |-> 0]
  /\ poolPages = [b \in Batches |-> [p \in Pages |-> "none"]]
  /\ completeOffers = IF variant = "pool" THEN basicCoupons ELSE <<>>
  /\ batchResults = <<>>
  /\ returned = <<>>

\* no scrape, for the specifications the resolution takes no part in
ResolveIdle ==
  /\ variant = "pool"
  /\ basicCoupons = <<>>
  /\ rpc = "returned"
  /\ batchIndex = 0
  /\ cst = [k \in Candidates |-> "idle"]
  /\ attempts = [k \in Candidates |-> 0]
  /\ navs = [k \in Candidates |-> 0]
  /\ poolPages = [b \in Batches |-> [p \in Pages |-> "none"]]
  /\ completeOffers = <<>>
  /\ batchResults = <<>>
  /\ returned = <<>>

\* scrape.js:388-405 the next iteration of the batch loop calls
\* processModalBatch, which starts with its page pool
PoolBatchStart ==
  /\ variant = "pool"
  /\ rpc = "loop"
  /\ batchIndex < TotalBatches
  /\ batchIndex' = batchIndex + 1
  /\ rpc' = "pool"
  /\ UNCHANGED <<variant, basicCoupons, cst, attempts, navs, poolPages,
                 completeOffers, batchResults, returned>>
  /\ UNCHANGED notResolve

\* scrape.js:449-482 browser.newPage() and the setup of one pooled page
ResolvePoolPage ==
  /\ rpc = "pool"
  /\ Cardinality(OpenPages(batchIndex)) < ResolvePoolTarget(batchIndex)
  /\ poolPages' = [poolPages EXCEPT
                     ![batchIndex][Cardinality(OpenPages(batchIndex)) + 1] = "open"]
  /\ UNCHANGED <<variant, basicCoupons, rpc, batchIndex, cst, attempts, navs,
                 completeOffers, batchResults, returned>>
  /\ UNCHANGED notResolve

\* scrape.js:449-483, 414 the pool loop rejects: the attempt of scrapeCoupons
\* ends in its catch, the pages already pooled stay open
ResolvePoolThrow ==
  /\ rpc = "pool"
  /\ Cardinality(OpenPages(batchIndex)) < ResolvePoolTarget(batchIndex)
  /\ rpc' = "threw"
  /\ UNCHANGED <<variant, basicCoupons, batchIndex, cst, attempts, navs,
                 poolPages, completeOffers, batchResults, returned>>
  /\ UNCHANGED notResolve

\* scrape.js:488-630 the task of every item of the batch is created
PoolSpawn ==
  /\ rpc = "pool"
  /\ Cardinality(OpenPages(batchIndex)) = ResolvePoolTarget(batchIndex)
  /\ cst' = [k \in Candidates |->
               IF k \in BatchIds(batchIndex) THEN "start" ELSE cst[k]]
  /\ attempts' = [k \in Candidates |->
                    IF k \in BatchIds(batchIndex) THEN attempts[k] + 1
                                                  ELSE attempts[k]]
  /\ rpc' = "await"
  /\ UNCHANGED <<variant, basicCoupons, batchIndex, navs, poolPages,
                 completeOffers, batchResults, returned>>
  /\ UNCHANGED notResolve

\* scrape.js:1099-1106, 1138-1142, 1218-1223 the next iteration calls
\* processBatch: the first min(concurrentLimit, queue.length) items, here the
\* whole batch, are taken from the queue
QueueBatchStart ==
  /\ variant = "queue"
  /\ rpc = "loop"
  /\ batchIndex < TotalBatches
  /\ batchIndex' = batchIndex + 1
  /\ cst' = [k \in Candidates |->
               IF k \in BatchIds(batchIndex + 1) THEN "start" ELSE cst[k]]
  /\ attempts' = [k \in Candidates |->
                    IF k \in BatchIds(batchIndex + 1) THEN attempts[k] + 1
                                                      ELSE attempts[k]]
  /\ batchResults' = <<>>
  /\ rpc' = "await"
  /\ UNCHANGED <<variant, basicCoupons, navs, poolPages, completeOffers,
                 returned>>
  /\ UNCHANGED notResolve

\* scrape.js:1145, 1204-1206 browser.newPage() or the interception setup
\* rejects: the item is pushed as it is, without a navigation
QueueNewPageFail(k) ==
  /\ variant = "queue"
  /\ cst[k] = "start"
  /\ batchResults' = Append(batchResults, Strip(basicCoupons[k]))
  /\ cst' = [cst EXCEPT ![k] = "noPage"]
  /\ UNCHANGED <<variant, basicCoupons, rpc, batchIndex, attempts, navs,
                 poolPages, completeOffers, returned>>
  /\ UNCHANGED notResolve

\* scrape.js:495-505, 1145-1173 the page goes to the item's detail URL
ItemNavigate(k) ==
  /\ cst[k] = "start"
  /\ navs' = [navs EXCEPT ![k] = @ + 1]
  /\ cst' = [cst EXCEPT ![k] = "goto"]
  /\ UNCHANGED <<variant, basicCoupons, rpc, batchIndex, attempts, poolPages,
                 completeOffers, batchResults, returned>>
  /\ UNCHANGED notResolve

\* scrape.js:508-627 the task of a pooled item ends: with a code it updates
\* completeCoupons[item.index].code, without one or after an error it leaves
\* the entry as it is
PoolItemSettle(k) ==
  /\ variant = "pool"
  /\ cst[k] = "goto"
  /\ \E code \in {AUTOMATIC, DetailCode(k)} :
       completeOffers' =
         IF code # AUTOMATIC
           THEN [completeOffers EXCEPT ![k].code = code]
           ELSE completeOffers
  /\ cst' = [cst EXCEPT ![k] = "settled"]
  /\ UNCHANGED <<variant, basicCoupons, rpc, batchIndex, attempts, navs,
                 poolPages, batchResults, returned>>
  /\ UNCHANGED notResolve

\* scrape.js:1159-1203 the item's promise resolves (code found, none found,
\* error or timeout) and the result is pushed to results
QueueItemSettle(k) ==
  /\ variant = "queue"
  /\ cst[k] = "goto"
  /\ \E code \in {AUTOMATIC, DetailCode(k)} :
       batchResults' =
         Append(batchResults, [Strip(basicCoupons[k]) EXCEPT !.code = code])
  /\ cst' = [cst EXCEPT ![k] = "settled"]
  /\ UNCHANGED <<variant, basicCoupons, rpc, batchIndex, attempts, navs,
                 poolPages, completeOffers, returned>>
  /\ UNCHANGED notResolve

\* a batch that goes on as soon as one of its items has ended
BatchDone_First(b) == \E k \in BatchIds(b) : cst[k] \in {"settled", "noPage"}

\* scrape.js:633, 1226-1229 every task of the batch has ended
BatchDone(b) == \A k \in BatchIds(b) : cst[k] \in {"settled", "noPage"}

\* scrape.js:633-636 Promise.all(batchPromises) resolves
PoolBatchSettled ==
  /\ variant = "pool"
  /\ rpc = "await"
  /\ BatchDone(batchIndex)
  /\ rpc' = "close"
  /\ UNCHANGED <<variant, basicCoupons, batchIndex, cst, attempts, navs,
                 poolPages, completeOffers, batchResults, returned>>
  /\ UNCHANGED notResolve

\* scrape.js:636-640 the next pooled page is closed; a rejected close is
\* caught and logged
ResolveClosePage ==
  /\ rpc = "close"
  /\ OpenPages(batchIndex) # {}
  /\ LET p == CHOOSE q \in OpenPages(batchIndex) :
                \A o \in OpenPages(batchIndex) : q <= o
     IN \E r \in {"closed", "closeFailed"} :
          poolPages' = [poolPages EXCEPT ![batchIndex][p] = r]
  /\ UNCHANGED <<variant, basicCoupons, rpc, batchIndex, cst, attempts, navs,
                 completeOffers, batchResults, returned>>
  /\ UNCHANGED notResolve

\* scrape.js:641, 388 processModalBatch resolves and the loop goes on
PoolBatchReturn ==
  /\ rpc = "close"
  /\ OpenPages(batchIndex) = {}
  /\ rpc' = "loop"
  /\ UNCHANGED <<variant, basicCoupons, batchIndex, cst, attempts, navs,
                 poolPages, completeOffers, batchResults, returned>>
  /\ UNCHANGED notResolve

\* scrape.js:1106-1111, 1226-1231 processBatch resolves with results, which
\* are pushed to completeCoupons
QueueBatchReturn ==
  /\ variant = "queue"
  /\ rpc = "await"
  /\ BatchDone(batchIndex)
  /\ completeOffers' = completeOffers \o batchResults
  /\ rpc' = "loop"
  /\ UNCHANGED <<variant, basicCoupons, batchIndex, cst, attempts, navs,
                 poolPages, batchResults, returned>>
  /\ UNCHANGED notResolve

\* scrape.js:409-413 the pool variant returns completeCoupons without
\* elementId; scrape.js:1114-1125 the queue variant adds the candidates that
\* needed no resolution, sorts by id and returns
ResolveReturn ==
  /\ rpc = "loop"
  /\ batchIndex = TotalBatches
  /\ IF variant = "pool"
       THEN /\ returned' = [i \in 1..Len(completeOffers) |-> Strip(completeOffers[i])]
            /\ UNCHANGED completeOffers
       ELSE /\ completeOffers' = SortById(completeOffers \o Bypassed)
            /\ returned' = completeOffers'
  /\ rpc' = "returned"
  /\ UNCHANGED <<variant, basicCoupons, batchIndex, cst, attempts, navs,
                 poolPages, batchResults>>
  /\ UNCHANGED notResolve

ResolveNext ==
  \/ PoolBatchStart
  \/ ResolvePoolPage
  \/ ResolvePoolThrow
  \/ PoolSpawn
  \/ QueueBatchStart
  \/ \E k \in Candidates : QueueNewPageFail(k)
  \/ \E k \in Candidates : ItemNavigate(k)
  \/ \E k \in Candidates : PoolItemSettle(k)
  \/ \E k \in Candidates : QueueItemSettle(k)
  \/ PoolBatchSettled
  \/ ResolveClosePage
  \/ PoolBatchReturn
  \/ QueueBatchReturn
  \/ ResolveReturn

-----------------------------------------------------------------------------
(***************************************************************************)
(* The code extraction on a detail page (scrape.js 527-627).  A string is  *)
(* a sequence of characters; an attribute that is absent (getAttribute     *)
(* returns null) and one that is "" are both falsy and both the empty      *)
(* sequence here.                                                          *)
(***************************************************************************)
\* String.prototype.trim: leading white space removed
RECURSIVE TrimStart(_)
TrimStart(s) ==
  IF s # <<>> /\ Head(s) = " " THEN TrimStart(Tail(s)) ELSE s

\* String.prototype.trim: trailing white space removed
RECURSIVE TrimEnd(_)
TrimEnd(s) ==
  IF s # <<>> /\ s[Len(s)] = " " THEN TrimEnd(SubSeq(s, 1, Len(s) - 1)) ELSE s

\* String.prototype.trim
Trim(s) == TrimEnd(TrimStart(s))

\* the strings an element's value, attribute or text holds
PageStrings == {<<>>, <<" ">>, <<" ", "A">>}

\* scrape.js:601 the string "AUTOMATIC"
AutomaticCode == <<"AUTOMATIC">>

\* scrape.js:530-537 the indices of selectors
Selectors == 1..6

\* scrape.js:530-537 the selectors that match input elements only
InputSelectors == {1, 2}

\* scrape.js:541 querySelector returned null
NoElement ==
  [tag |-> "none", value |-> <<>>, clip |-> <<>>, dataCode |-> <<>>,
   text |-> <<>>]

\* the elements selector s can match
ElementsOf(s) ==
  [tag : {"INPUT"}, value : PageStrings, clip : {<<>>}, dataCode : {<<>>},
   text : {<<>>}]
  \cup (IF s \in InputSelectors THEN {}
        ELSE [tag : {"DIV"}, value : {<<>>}, clip : PageStrings,
              dataCode : PageStrings, text : PageStrings])

\* every element a selector can match
AllElements == UNION {ElementsOf(s) : s \in Selectors}

\* the documents in which the selectors of M match the elements f gives them
Document(M, f) == [s \in Selectors |-> IF s \in M THEN f[s] ELSE NoElement]

\* the value of the loop's return, or none when the loop falls through
Nothing == [found |-> FALSE, value |-> <<>>]
Found(v) == [found |-> TRUE, value |-> v]

\* scrape.js:540-562 (and 568-596) the loop over the selectors from selector i
RECURSIVE SelectorLoop(_, _)
SelectorLoop(d, i) ==
  IF i > 6 THEN Nothing
  ELSE LET element == d[i] IN
    IF element = NoElement THEN SelectorLoop(d, i + 1)
    ELSE IF element.tag = "INPUT"
      THEN IF Trim(element.value) # <<>> THEN Found(Trim(element.value))
           ELSE SelectorLoop(d, i + 1)
    ELSE IF element.clip # <<>> THEN Found(Trim(element.clip))
    ELSE IF element.dataCode # <<>> THEN Found(Trim(element.dataCode))
    ELSE IF Trim(element.text) # <<>> THEN Found(Trim(element.text))
    ELSE SelectorLoop(d, i + 1)

ExtractInit ==
  /\ \E M \in {S \in SUBSET Selectors : Cardinality(S) <= MaxElements} :
       \E f \in [M -> AllElements] :
         /\ \A s \in M : f[s] \in ElementsOf(s)
         /\ dom = Document(M, f)
  /\ xpc = "first"
  /\ passes = 0
  /\ evaluated = <<>>
  /\ itemCode = AutomaticCode

\* no detail page, for the specifications the extraction takes no part in
ExtractIdle ==
  /\ dom = [s \in Selectors |-> NoElement]
  /\ xpc = "idle"
  /\ passes = 0
  /\ evaluated = <<>>
  /\ itemCode = AutomaticCode

\* scrape.js:540-562 the first pass over the selectors
ExtractFirstPass ==
  /\ xpc = "first"
  /\ passes' = passes + 1
  /\ IF SelectorLoop(dom, 1).found
       THEN evaluated' = SelectorLoop(dom, 1).value /\ xpc' = "evaluated"
       ELSE evaluated' = evaluated /\ xpc' = "delay"
  /\ UNCHANGED <<dom, itemCode>>
  /\ UNCHANGED notExtract

\* the page's scripts change what one selector matches during the 500 ms
ExtractDomChanges ==
  /\ xpc = "delay"
  /\ \E s \in Selectors : \E e \in ElementsOf(s) \cup {NoElement} :
       /\ e # dom[s]
       /\ dom' = [dom EXCEPT ![s] = e]
  /\ xpc' = "timer"
  /\ UNCHANGED <<passes, evaluated, itemCode>>
  /\ UNCHANGED notExtract

\* scrape.js:565-600 the second pass, in the timer's callback
ExtractSecondPass ==
  /\ xpc \in {"delay", "timer"}
  /\ passes' = passes + 1
  /\ evaluated' = IF SelectorLoop(dom, 1).found
                    THEN SelectorLoop(dom, 1).value
                    ELSE AutomaticCode
  /\ xpc' = "evaluated"
  /\ UNCHANGED <<dom, itemCode>>
  /\ UNCHANGED notExtract

\* scrape.js:606-621 the coupon takes the code
ExtractUpdate ==
  /\ xpc = "evaluated"
  /\ itemCode' = IF evaluated # <<>> /\ evaluated # AutomaticCode
                   THEN evaluated ELSE itemCode
  /\ xpc' = "done"
  /\ UNCHANGED <<dom, passes, evaluated>>
  /\ UNCHANGED notExtract

\* scrape.js:622-627 page.evaluate rejects and the task's catch logs it
ExtractRejects ==
  /\ xpc \in {"first", "delay", "timer"}
  /\ xpc' = "caught"
  /\ UNCHANGED <<dom, passes, evaluated, itemCode>>
  /\ UNCHANGED notExtract

ExtractNext ==
  \/ ExtractFirstPass
  \/ ExtractDomChanges
  \/ ExtractSecondPass
  \/ ExtractUpdate
  \/ ExtractRejects

-----------------------------------------------------------------------------
(***************************************************************************)
(* The extraction of the listing page (scrape.js 296-356, 1052-1090,       *)
(* 1370-1400, coupons.js 190-222), one offer card per step of forEach.     *)
(***************************************************************************)
ListingKinds == {"scrape.js 296", "scrape.js 1052", "scrape.js 1370",
                 "coupons.js 190"}

\* scrape.js:321  the default of discount
DefaultDiscount == <<"Discount">>

\* scrape.js:322  the default of terms
DefaultTerms == <<"Terms apply">>

\* an offer card: its data-type, its .offer-title and .offer-description
\* elements and their text, and the element the code is read from: the
\* .show-code button with its two attributes (scrape.js 329-333) or the
\* .coupon-code element with its text (scrape.js 1073, coupons.js 209)
NoCard ==
  [isCoupon |-> FALSE, hasTitle |-> FALSE, title |-> <<>>,
   hasDescription |-> FALSE, description |-> <<>>, hasCodeEl |-> FALSE,
   dataCode |-> <<>>, clip |-> <<>>, codeText |-> <<>>]

CardsOf(kind) ==
  LET attrs == IF kind = "scrape.js 296" THEN PageStrings ELSE {<<>>}
      texts == IF kind \in {"scrape.js 1052", "coupons.js 190"}
                 THEN PageStrings ELSE {<<>>}
  IN {c \in [isCoupon : BOOLEAN, hasTitle : BOOLEAN, title : PageStrings,
             hasDescription : BOOLEAN, description : PageStrings,
             hasCodeEl : BOOLEAN, dataCode : attrs, clip : attrs,
             codeText : texts] :
        /\ ~c.hasTitle => c.title = <<>>
        /\ ~c.hasDescription => c.description = <<>>
        /\ ~c.hasCodeEl =>
             c.dataCode = <<>> /\ c.clip = <<>> /\ c.codeText = <<>>
        /\ kind = "scrape.js 1370" => ~c.hasCodeEl}

ListedDiscount_NoDefault(card) ==
  IF card.hasTitle THEN Trim(card.title) ELSE <<>>

\* scrape.js:321  discountEl?.textContent?.trim() || "Discount"
ListedDiscount(card) ==
  IF card.hasTitle /\ Trim(card.title) # <<>>
    THEN Trim(card.title) ELSE DefaultDiscount

\* scrape.js:322  termsEl?.textContent?.trim() || "Terms apply"
ListedTerms(card) ==
  IF card.hasDescription /\ Trim(card.description) # <<>>
    THEN Trim(card.description) ELSE DefaultTerms

\* scrape.js:325-337, 1071-1076, 1390, coupons.js 207-212  code
ListedCode(kind, card) ==
  IF kind = "scrape.js 296"
    THEN IF card.hasCodeEl
           THEN LET dataCode == IF card.dataCode # <<>> THEN card.dataCode
                                ELSE card.clip
                IN IF dataCode # <<>> THEN dataCode ELSE AutomaticCode
           ELSE AutomaticCode
  ELSE IF kind = "scrape.js 1370"
    THEN AutomaticCode
  ELSE IF card.hasCodeEl /\ card.codeText # <<>>
    THEN Trim(card.codeText)
  ELSE AutomaticCode

ListingInit ==
  /\ listingKind \in ListingKinds
  /\ cardsSeen = 0
  /\ lastCard = NoCard
  /\ candidates = <<>>
  /\ kpc = "forEach"
  /\ bypassed = <<>>

\* no listing, for the specifications the listing takes no part in
ListingIdle ==
  /\ listingKind = "scrape.js 296"
  /\ cardsSeen = 0
  /\ lastCard = NoCard
  /\ candidates = <<>>
  /\ kpc = "idle"
  /\ bypassed = <<>>

\* scrape.js:307-355 the callback of forEach for the next offer card
ListingCard ==
  /\ kpc = "forEach"
  /\ cardsSeen < MaxCards
  /\ \E card \in CardsOf(listingKind) :
       /\ lastCard' = card
       /\ candidates' =
            IF ~card.isCoupon THEN candidates
            ELSE Append(candidates,
                        [id |-> Len(candidates) + 1,
                         code |-> ListedCode(listingKind, card),
                         discount |-> ListedDiscount(card),
                         terms |-> ListedTerms(card)])
  /\ cardsSeen' = cardsSeen + 1
  /\ UNCHANGED <<listingKind, kpc, bypassed>>
  /\ UNCHANGED notListing

\* scrape.js:371-377, 1094-1096, 1115-1120, coupons.js 230 the candidates that
\* are not handed to a detail page are returned as they were listed
ListingBypass ==
  /\ kpc = "forEach"
  /\ bypassed' =
       IF listingKind = "coupons.js 190" THEN candidates
       ELSE SelectSeq(candidates, LAMBDA c : c.code # AutomaticCode)
  /\ kpc' = "returned"
  /\ UNCHANGED <<listingKind, cardsSeen, lastCard, candidates>>
  /\ UNCHANGED notListing

ListingNext ==
  \/ ListingCard
  \/ ListingBypass

-----------------------------------------------------------------------------
(***************************************************************************)
(* processBatch (scrape.js 1133-1232): the chains of processNextItem calls *)
(* started by the initial loop, each taking the next item of the queue     *)
(* when its own has ended.                                                 *)
(***************************************************************************)
Chains == 1..MaxLimit
QueueItems == 1..MaxQueueItems

\* an initial loop that starts a chain for every item
InitialBatch_All(limit, n) == n

\* scrape.js:1218 Math.min(concurrentLimit, queue.length)
InitialBatch(limit, n) == Min(limit, n)

ProcessBatchInit ==
  /\ concurrentLimit \in 1..MaxLimit
  /\ numCoupons \in 0..MaxQueueItems
  /\ queue = [i \in 1..numCoupons |-> i]
  /\ inProgress = {}
  /\ results = <<>>
  /\ chainPc = <<>>
  /\ chainItem = <<>>
  /\ pagePromise = [i \in QueueItems |-> "none"]
  /\ navigation = [i \in QueueItems |-> "none"]
  /\ timeoutId = [i \in QueueItems |-> "none"]
  /\ taken = [i \in QueueItems |-> 0]
  /\ pbpc = "start"

\* no call, for the specifications processBatch takes no part in
ProcessBatchIdle ==
  /\ concurrentLimit = 1
  /\ numCoupons = 0
  /\ queue = <<>>
  /\ inProgress = {}
  /\ results = <<>>
  /\ chainPc = <<>>
  /\ chainItem = <<>>
  /\ pagePromise = [i \in QueueItems |-> "none"]
  /\ navigation = [i \in QueueItems |-> "none"]
  /\ timeoutId = [i \in QueueItems |-> "none"]
  /\ taken = [i \in QueueItems |-> 0]
  /\ pbpc = "idle"

\* scrape.js:1218-1223 the initial loop calls processNextItem
\* initialBatch times; each call runs to its first await: it takes the head of
\* the queue and adds it to inProgress (1138-1142)
ProcessBatchStart ==
  /\ pbpc = "start"
  /\ LET initialBatch == InitialBatch(concurrentLimit, Len(queue))
         started == Min(initialBatch, Len(queue))
     IN /\ chainPc' = [c \in 1..initialBatch |->
                         IF c <= started THEN "newPage" ELSE "ended"]
        /\ chainItem' = [c \in 1..initialBatch |->
                           IF c <= started THEN queue[c] ELSE 0]
        /\ inProgress' = {queue[c] : c \in 1..started}
        /\ taken' = [i \in QueueItems |->
                       IF \E c \in 1..started : queue[c] = i
                         THEN taken[i] + 1 ELSE taken[i]]
        /\ queue' = SubSeq(queue, started + 1, Len(queue))
  /\ pbpc' = "awaitAll"
  /\ UNCHANGED <<concurrentLimit, numCoupons, results, pagePromise, navigation,
                 timeoutId>>
  /\ UNCHANGED notProcessBatch

\* scrape.js:1145-1173 the page is created and set up, the timer is armed and
\* the navigation begins; the chain awaits pagePromise
ChainNewPage(c) ==
  /\ c \in DOMAIN chainPc
  /\ chainPc[c] = "newPage"
  /\ pagePromise' = [pagePromise EXCEPT ![chainItem[c]] = "pending"]
  /\ navigation' = [navigation EXCEPT ![chainItem[c]] = "running"]
  /\ timeoutId' = [timeoutId EXCEPT ![chainItem[c]] = "armed"]
  /\ chainPc' = [chainPc EXCEPT ![c] = "awaitPromise"]
  /\ UNCHANGED <<concurrentLimit, numCoupons, queue, inProgress, results,
                 chainItem, taken, pbpc>>
  /\ UNCHANGED notProcessBatch

\* scrape.js:1202-1214 the item of chain c has ended: its result is pushed,
\* its id leaves inProgress, and the chain takes the next item when the queue
\* is not empty and fewer than concurrentLimit items are in progress
ChainItemEnds(c) ==
  LET rest == inProgress \ {chainItem[c]}
      goesOn == Len(queue) > 0 /\ Cardinality(rest) < concurrentLimit
  IN /\ results' = Append(results, chainItem[c])
     /\ IF goesOn
          THEN /\ inProgress' = rest \cup {Head(queue)}
               /\ chainItem' = [chainItem EXCEPT ![c] = Head(queue)]
               /\ taken' = [taken EXCEPT ![Head(queue)] = @ + 1]
               /\ queue' = Tail(queue)
               /\ chainPc' = [chainPc EXCEPT ![c] = "newPage"]
          ELSE /\ inProgress' = rest
               /\ chainItem' = [chainItem EXCEPT ![c] = 0]
               /\ chainPc' = [chainPc EXCEPT ![c] = "ended"]
               /\ UNCHANGED <<taken, queue>>

\* scrape.js:1145-1148, 1204-1207 browser.newPage() or setRequestInterception
\* rejects: the catch pushes the item as it is
ChainNewPageFails(c) ==
  /\ c \in DOMAIN chainPc
  /\ chainPc[c] = "newPage"
  /\ ChainItemEnds(c)
  /\ UNCHANGED <<concurrentLimit, numCoupons, pagePromise, navigation,
                 timeoutId, pbpc>>
  /\ UNCHANGED notProcessBatch

\* scrape.js:1159-1167 the 8 s timer fires: it resolves pagePromise (a no-op
\* when it is resolved already) and closes the page
TimeoutFires(i) ==
  /\ timeoutId[i] = "armed"
  /\ timeoutId' = [timeoutId EXCEPT ![i] = "fired"]
  /\ pagePromise' = [pagePromise EXCEPT ![i] = "resolved"]
  /\ UNCHANGED <<concurrentLimit, numCoupons, queue, inProgress, results,
                 chainPc, chainItem, navigation, taken, pbpc>>
  /\ UNCHANGED notProcessBatch

\* scrape.js:1169-1199 the navigation and the evaluation end, resolved or
\* rejected: clearTimeout, resolve (a no-op when the timer resolved it
\* already), and the page is closed
NavigationEnds(i) ==
  /\ navigation[i] = "running"
  /\ navigation' = [navigation EXCEPT ![i] = "ended"]
  /\ timeoutId' = [timeoutId EXCEPT
                     ![i] = IF @ = "armed" THEN "cleared" ELSE @]
  /\ pagePromise' = [pagePromise EXCEPT ![i] = "resolved"]
  /\ UNCHANGED <<concurrentLimit, numCoupons, queue, inProgress, results,
                 chainPc, chainItem, taken, pbpc>>
  /\ UNCHANGED notProcessBatch

\* scrape.js:1201-1214 pagePromise is resolved: the chain pushes the result
ChainResumes(c) ==
  /\ c \in DOMAIN chainPc
  /\ chainPc[c] = "awaitPromise"
  /\ pagePromise[chainItem[c]] = "resolved"
  /\ ChainItemEnds(c)
  /\ UNCHANGED <<concurrentLimit, numCoupons, pagePromise, navigation,
                 timeoutId, pbpc>>
  /\ UNCHANGED notProcessBatch

\* scrape.js:1226-1231 every chain has ended and inProgress is empty:
\* processBatch returns results
ProcessBatchReturn ==
  /\ pbpc = "awaitAll"
  /\ \A c \in DOMAIN chainPc : chainPc[c] = "ended"
  /\ inProgress = {}
  /\ pbpc' = "returned"
  /\ UNCHANGED <<concurrentLimit, numCoupons, queue, inProgress, results,
                 chainPc, chainItem, pagePromise, navigation, timeoutId, taken>>
  /\ UNCHANGED notProcessBatch

ProcessBatchNext ==
  \/ ProcessBatchStart
  \/ \E c \in Chains : ChainNewPage(c)
  \/ \E c \in Chains : ChainNewPageFails(c)
  \/ \E i \in QueueItems : TimeoutFires(i)
  \/ \E i \in QueueItems : NavigationEnds(i)
  \/ \E c \in Chains : ChainResumes(c)
  \/ ProcessBatchReturn

-----------------------------------------------------------------------------
(***************************************************************************)
(* The GET handler of coupons.js (35-91) without a fresh record: the       *)
(* scrape of coupons.js 126-239 raced against the overall timeout.         *)
(***************************************************************************)
\* the awaits of scrapeCoupons inside its try (coupons.js 131-222)
ScrapeSteps == {"launch", "newPage", "goto", "evaluate"}

\* no record of the domain
NoRecord == [coupons |-> 0, state |-> "none"]

\* the records of the domain: the length of coupons, and whether updated_at
\* is within CACHE_TTL
RaceRecords ==
  [coupons : 0..MaxRaceOffers, state : {"fresh", "stale"}] \cup {NoRecord}

\* the position after step s
AfterStep(s) ==
  CASE s = "launch" -> "newPage"
    [] s = "newPage" -> "goto"
    [] s = "goto" -> "evaluate"
    [] s = "evaluate" -> "finally"

\* a finally that leaves the browser as it is
FinallyBrowser_NoClose(b) == b

\* coupons.js:234-238  if (browser) await browser.close()
FinallyBrowser(b) == IF b = "open" THEN "closed" ELSE b

RaceInit ==
  /\ racePc = "lookup"
  /\ scrapePc = "none"
  /\ scrapeBrowser = "none"
  /\ scrapeValue = 0
  /\ overallTimer = "none"
  /\ raceWinner = "none"
  /\ raceResponse = <<>>
  /\ raceUpserts = 0
  /\ raceRecord \in RaceRecords

\* no request, for the specifications the race takes no part in
RaceIdle ==
  /\ racePc = "idle"
  /\ scrapePc = "none"
  /\ scrapeBrowser = "none"
  /\ scrapeValue = 0
  /\ overallTimer = "none"
  /\ raceWinner = "none"
  /\ raceResponse = <<>>
  /\ raceUpserts = 0
  /\ raceRecord = NoRecord

\* coupons.js:43-56 a fresh record is found and returned
RaceCacheHit ==
  /\ racePc = "lookup"
  /\ raceRecord.state = "fresh"
  /\ raceResponse' =
       Append(raceResponse, [status |-> 200, coupons |-> raceRecord.coupons])
  /\ racePc' = "responded"
  /\ UNCHANGED <<scrapePc, scrapeBrowser, scrapeValue, overallTimer,
                 raceWinner, raceUpserts>>
  /\ UNCHANGED raceRecord
  /\ UNCHANGED notRace

\* coupons.js:43-67 no fresh record, or the lookup answered an error: the
\* timer is set, scrapeCoupons is called and the race is awaited
RaceStart ==
  /\ racePc = "lookup"
  /\ overallTimer' = "armed"
  /\ scrapePc' = "launch"
  /\ racePc' = "racing"
  /\ UNCHANGED <<scrapeBrowser, scrapeValue, raceWinner, raceResponse,
                 raceUpserts>>
  /\ UNCHANGED raceRecord
  /\ UNCHANGED notRace

\* coupons.js:43-50, 86-90 the lookup rejects: the catch answers with no offers
RaceLookupThrows ==
  /\ racePc = "lookup"
  /\ raceResponse' = Append(raceResponse, [status |-> 200, coupons |-> 0])
  /\ racePc' = "responded"
  /\ UNCHANGED <<scrapePc, scrapeBrowser, scrapeValue, overallTimer,
                 raceWinner, raceUpserts>>
  /\ UNCHANGED raceRecord
  /\ UNCHANGED notRace

\* coupons.js:131-230 the awaited step of the scrape resolves; the launch
\* gives the browser, the evaluation the list that is returned
ScrapeStep ==
  /\ scrapePc \in ScrapeSteps
  /\ scrapeBrowser' = IF scrapePc = "launch" THEN "open" ELSE scrapeBrowser
  /\ IF scrapePc = "evaluate"
       THEN \E n \in 0..MaxRaceOffers : scrapeValue' = n
       ELSE scrapeValue' = scrapeValue
  /\ scrapePc' = AfterStep(scrapePc)
  /\ UNCHANGED <<racePc, overallTimer, raceWinner, raceResponse, raceUpserts>>
  /\ UNCHANGED raceRecord
  /\ UNCHANGED notRace

\* coupons.js:231-233 the awaited step rejects: the catch returns []
ScrapeStepRejects ==
  /\ scrapePc \in ScrapeSteps
  /\ scrapeValue' = 0
  /\ scrapePc' = "finally"
  /\ UNCHANGED <<racePc, scrapeBrowser, overallTimer, raceWinner,
                 raceResponse, raceUpserts>>
  /\ UNCHANGED raceRecord
  /\ UNCHANGED notRace

\* coupons.js:234-239, 64-67 the finally closes the browser and the call
\* resolves; a race that is not settled yet resolves with the list
ScrapeFinally ==
  /\ scrapePc = "finally"
  /\ scrapeBrowser' = FinallyBrowser(scrapeBrowser)
  /\ scrapePc' = "done"
  /\ IF racePc = "racing"
       THEN racePc' = "upsert" /\ raceWinner' = "scrape"
       ELSE UNCHANGED <<racePc, raceWinner>>
  /\ UNCHANGED <<scrapeValue, overallTimer, raceResponse, raceUpserts>>
  /\ UNCHANGED raceRecord
  /\ UNCHANGED notRace

\* coupons.js:59-67, 86-90 the timer fires and timeoutPromise rejects: a race
\* that is not settled yet rejects and the catch answers with no offers
RaceTimeout ==
  /\ overallTimer = "armed"
  /\ overallTimer' = "fired"
  /\ IF racePc = "racing"
       THEN /\ raceWinner' = "timeout"
            /\ raceResponse' =
                 Append(raceResponse, [status |-> 200, coupons |-> 0])
            /\ racePc' = "responded"
       ELSE UNCHANGED <<racePc, raceWinner, raceResponse>>
  /\ UNCHANGED <<scrapePc, scrapeBrowser, scrapeValue, raceUpserts>>
  /\ UNCHANGED raceRecord
  /\ UNCHANGED notRace

\* coupons.js:69-90 the list is upserted and returned; an error of the upsert
\* is logged, an exception is answered with no offers
RaceUpsert ==
  /\ racePc = "upsert"
  /\ raceUpserts' = raceUpserts + 1
  /\ \E r \in {"ok", "error", "threw"} :
       /\ raceResponse' =
            Append(raceResponse,
                   [status |-> 200,
                    coupons |-> IF r = "threw" THEN 0 ELSE scrapeValue])
       /\ raceRecord' =
            IF r = "ok" THEN [coupons |-> scrapeValue, state |-> "fresh"]
                        ELSE raceRecord
  /\ racePc' = "responded"
  /\ UNCHANGED <<scrapePc, scrapeBrowser, scrapeValue, overallTimer,
                 raceWinner>>
  /\ UNCHANGED notRace

RaceNext ==
  \/ RaceCacheHit
  \/ RaceStart
  \/ RaceLookupThrows
  \/ ScrapeStep
  \/ ScrapeStepRejects
  \/ ScrapeFinally
  \/ RaceTimeout
  \/ RaceUpsert

-----------------------------------------------------------------------------
(***************************************************************************)
(* Specifications                                                          *)
(***************************************************************************)
\* the parts added last at rest
LaterIdle == ExtractIdle /\ ListingIdle /\ ProcessBatchIdle /\ RaceIdle

\* the parts below at rest
RestIdle == CleanupIdle /\ SaveStepsIdle /\ FieldsIdle /\ PagesIdle

\* one call of processModalBatch
InitBatch ==
  BatchInit /\ BrowserIdle /\ MainIdle /\ StoreIdle /\ RequestIdle /\ ResolveIdle
  /\ BulkIdle /\ RestIdle /\ LaterIdle
SpecBatch == InitBatch /\ [][BatchNext]_vars

\* concurrent calls of getBrowser
InitBrowser ==
  BrowserInit /\ BatchIdle /\ MainIdle /\ StoreIdle /\ RequestIdle /\ ResolveIdle
  /\ BulkIdle /\ RestIdle /\ LaterIdle
SpecBrowser == InitBrowser /\ [][BrowserNext]_vars

\* the batch loop of main over the domains of one category
InitMain ==
  MainInit /\ BatchIdle /\ BrowserIdle /\ StoreIdle /\ RequestIdle /\ ResolveIdle
  /\ BulkIdle /\ RestIdle /\ LaterIdle
SpecMain == InitMain /\ [][MainNext]_vars

\* one call of a persistence path of the table with one row per (domain, code)
InitSave ==
  SaveInit /\ BatchIdle /\ BrowserIdle /\ MainIdle /\ RequestIdle /\ ResolveIdle
  /\ BulkIdle /\ RestIdle /\ LaterIdle
SpecSave == InitSave /\ [][SaveNext]_vars

\* two calls of saveToDatabase in a row
InitResave ==
  ResaveInit /\ BatchIdle /\ BrowserIdle /\ MainIdle /\ RequestIdle /\ ResolveIdle
  /\ BulkIdle /\ RestIdle /\ LaterIdle
SpecResave == InitResave /\ [][ResaveNext]_vars

\* the handlers of the table with one record per domain
InitCache ==
  CacheInit /\ BatchIdle /\ BrowserIdle /\ MainIdle /\ RequestIdle /\ ResolveIdle
  /\ BulkIdle /\ RestIdle /\ LaterIdle
SpecCache == InitCache /\ [][CacheNext]_vars

\* one request to an API handler
InitRequest ==
  RequestInit /\ BatchIdle /\ BrowserIdle /\ MainIdle /\ ResolveIdle
  /\ BulkIdle /\ RestIdle /\ LaterIdle
SpecRequest == InitRequest /\ [][RequestNext]_vars

\* the resolution phase of one attempt of scrapeCoupons
InitResolve ==
  ResolveInit /\ BatchIdle /\ BrowserIdle /\ MainIdle /\ StoreIdle /\ RequestIdle
  /\ BulkIdle /\ RestIdle /\ LaterIdle
SpecResolve == InitResolve /\ [][ResolveNext]_vars

\* one bulk run of main
InitBulk ==
  BulkInit /\ BatchIdle /\ BrowserIdle /\ MainIdle /\ StoreIdle /\ RequestIdle
  /\ ResolveIdle /\ RestIdle /\ LaterIdle
SpecBulk == InitBulk /\ [][BulkNext]_vars

\* one call of the maintenance handler
InitCleanup ==
  CleanupInit /\ BatchIdle /\ BrowserIdle /\ MainIdle /\ RequestIdle
  /\ ResolveIdle /\ BulkIdle /\ SaveStepsIdle /\ FieldsIdle /\ PagesIdle /\ LaterIdle
SpecCleanup == InitCleanup /\ [][CleanupNext]_vars

\* one call of saveToDatabase, step by step
InitSaveSteps ==
  SaveStepsInit /\ BatchIdle /\ BrowserIdle /\ MainIdle /\ RequestIdle
  /\ ResolveIdle /\ BulkIdle /\ CleanupIdle /\ FieldsIdle /\ PagesIdle /\ LaterIdle
SpecSaveSteps == InitSaveSteps /\ [][SaveStepsNext]_vars

\* the coupon objects of one scrape on their way to the store
InitFields ==
  FieldsInit /\ BatchIdle /\ BrowserIdle /\ MainIdle /\ StoreIdle /\ RequestIdle
  /\ ResolveIdle /\ BulkIdle /\ CleanupIdle /\ SaveStepsIdle /\ PagesIdle /\ LaterIdle
SpecFields == InitFields /\ [][FieldsNext]_vars

\* the setup of pages opened side by side
InitPages ==
  PagesInit /\ BatchIdle /\ BrowserIdle /\ MainIdle /\ StoreIdle /\ RequestIdle
  /\ ResolveIdle /\ BulkIdle /\ CleanupIdle /\ SaveStepsIdle /\ FieldsIdle /\ LaterIdle
SpecPages == InitPages /\ [][PagesNext]_vars

\* the same, with every continuation that can run running in the end
SpecPagesLive == SpecPages /\ WF_vars(PagesNext)

\* the parts of the first specifications at rest
EarlierIdle ==
  BatchIdle /\ BrowserIdle /\ MainIdle /\ StoreIdle /\ RequestIdle /\ ResolveIdle
  /\ BulkIdle /\ RestIdle

\* the code extraction on one detail page
InitExtract ==
  ExtractInit /\ EarlierIdle
  /\ ListingIdle
  /\ ProcessBatchIdle
  /\ RaceIdle
SpecExtract == InitExtract /\ [][ExtractNext]_vars

\* the extraction of one listing page
InitListing ==
  ListingInit /\ EarlierIdle
  /\ ExtractIdle
  /\ ProcessBatchIdle
  /\ RaceIdle
SpecListing == InitListing /\ [][ListingNext]_vars

\* one call of processBatch
InitProcessBatch ==
  ProcessBatchInit /\ EarlierIdle
  /\ ExtractIdle
  /\ ListingIdle
  /\ RaceIdle
SpecProcessBatch == InitProcessBatch /\ [][ProcessBatchNext]_vars

\* one GET request to the handler of coupons.js
InitRace ==
  RaceInit /\ EarlierIdle
  /\ ExtractIdle
  /\ ListingIdle
  /\ ProcessBatchIdle
SpecRace == InitRace /\ [][RaceNext]_vars

-----------------------------------------------------------------------------
(***************************************************************************)
(* Claims about processModalBatch                                          *)
(***************************************************************************)
\* the task of item i has started and has not ended
InFlight(i) == ipc[i] \notin {"idle", "done"}

\* C1: no two in-flight items of a batch operate on the same page handle at
\* the same time; the items assigned to one page are served one after another.
C1_NoSharedPageInFlight ==
  \A i, j \in Items :
    (i # j /\ InFlight(i) /\ InFlight(j)) => PageOf(i) # PageOf(j)

\* C2: the code a pending candidate holds is the sentinel or a code extracted
\* from that candidate's own detail page, never from another candidate's page.
C2_CodeFromOwnDetailPage ==
  \A i \in Items : completeCoupons[i] \in {AUTOMATIC, i}

\* C3: batch isolation. A failing item never rejects the batch (the batch is
\* rejected only before any task exists), every item has run to completion
\* when the batch goes on to close its pages, a failed item keeps the
\* sentinel, and an item that ended without failing holds what it extracted.
C3_BatchIsolation ==
  /\ bpc = "rejected" => \A i \in Items : ipc[i] = "idle"
  /\ bpc \in {"close", "returned"} =>
       \A i \in 1..batchItems : ipc[i] = "done" /\ outcome[i] # "none"
  /\ \A i \in Items :
       /\ outcome[i] = "failed" => completeCoupons[i] = AUTOMATIC
       /\ outcome[i] = "nocode" => completeCoupons[i] = AUTOMATIC
       /\ outcome[i] = "resolved" => completeCoupons[i] # AUTOMATIC

\* C3 witness: a batch that returned with one item failed and another resolved
C3_Witness ==
  /\ bpc = "returned"
  /\ \E i, j \in 1..batchItems :
       /\ outcome[i] = "failed"
       /\ outcome[j] = "resolved"
       /\ completeCoupons[j] = j

\* C4: processModalBatch never rejects, whatever automation call fails.
C4_ResolverNeverRejects == bpc # "rejected"


-----------------------------------------------------------------------------
(***************************************************************************)
(* Claims about getBrowser                                                 *)
(***************************************************************************)
\* C5: overlapping getBrowser calls never mutate the shared handle in a way
\* that loses a browser: every launched browser that has not been closed is
\* the one browserInstance refers to, so at most one browser is open.
C5_NoOrphanedBrowser ==
  \A b \in BrowserIds : browsers[b] = "open" => browserInstance = b


-----------------------------------------------------------------------------
(***************************************************************************)
(* Claims about scrapeCoupons and main                                     *)
(***************************************************************************)
\* the call of scrapeCoupons for domain d has ended
ScrapeEnded(d) == dpc[d] \in {"returned", "save", "settled", "counted"}

\* C6: an attempt that throws at any stage is followed by a retry of the
\* whole flow; there are at most DomainRetries retries after the first
\* attempt, each preceded by the 2 s delay; when every attempt throws the
\* call ends returning the empty result.
C6_RetryPolicy ==
  \A d \in Domains :
    /\ retryCount[d] <= DomainRetries
    /\ waitedMs[d] = RetryDelayMs * retryCount[d]
    /\ dpc[d] \in StageSet => Len(throwLog[d]) = retryCount[d]
    /\ dpc[d] = "retryWait" =>
         /\ Len(throwLog[d]) = retryCount[d] + 1
         /\ retryCount[d] < DomainRetries
    /\ (ScrapeEnded(d) /\ Len(throwLog[d]) = retryCount[d] + 1) =>
         /\ retryCount[d] = DomainRetries
         /\ couponsLen[d] = 0
         /\ dpc[d] # "save"

\* C6 witness: a call whose three attempts threw, at different stages, ended
\* with the empty result after two delays
C6_Witness ==
  \E d \in Domains :
    /\ ScrapeEnded(d)
    /\ throwLog[d] = <<"other", "nav", "other">>
    /\ waitedMs[d] = 2 * RetryDelayMs
    /\ couponsLen[d] = 0

\* the tallies count exactly the domains whose result main has counted
TallyMatches ==
  /\ totalSuccessCount =
       Cardinality({d \in Domains : dpc[d] = "counted" /\ success[d] = TRUE})
  /\ totalErrorCount =
       Cardinality({d \in Domains : dpc[d] = "counted" /\ success[d] = FALSE})

\* C7 as stated: with retry count 2, a domain whose scrape threw during
\* navigation on attempt 1 and on attempt 2 is returned as failed and counted
\* in the failure tally, not in the success tally.
C7_TwoThrowsFail ==
  /\ TallyMatches
  /\ \A d \in Domains :
       (/\ Len(throwLog[d]) >= 2
        /\ throwLog[d][1] = "nav"
        /\ throwLog[d][2] = "nav"
        /\ dpc[d] \in {"settled", "counted"}) => success[d] = FALSE

\* C7 amended: with retry count 2, a domain whose scrape threw during
\* navigation on each of its three attempts (the first and both retries) has
\* returned the empty result to main's task, which returns failure; main
\* counts the domain in the failure tally and not in the success tally.
C7_AllThrowsFail ==
  /\ TallyMatches
  /\ \A d \in Domains :
       throwLog[d] = <<"nav", "nav", "nav">> =>
         /\ dpc[d] \in {"returned", "settled", "counted"}
         /\ couponsLen[d] = 0
         /\ dpc[d] \in {"settled", "counted"} => success[d] = FALSE

\* C7 witness: such a domain has been counted, beside a successful one
C7_Witness ==
  \E d, e \in Domains :
    /\ throwLog[d] = <<"nav", "nav", "nav">>
    /\ dpc[d] = "counted"
    /\ dpc[e] = "counted"
    /\ success[e] = TRUE
    /\ totalErrorCount >= 1
    /\ totalSuccessCount >= 1


-----------------------------------------------------------------------------
(***************************************************************************)
(* Claims about the persistence paths                                      *)
(***************************************************************************)
\* the handlers that persist the result of a scrape
ScrapePersistPaths ==
  {"saveToDatabase", "getScraped", "getQueryError", "scrapeStored"}

\* C8: save with an empty offer list is a no-op on every path that persists
\* the result of a scrape: a step of such a path whose resolved-offer list is
\* empty leaves every previously persisted row and record, timestamp included,
\* as it was.
C8_EmptySaveIsNoOp ==
  [][ (handlerRun' \in ScrapePersistPaths /\ reqCoupons' = <<>>) =>
        /\ \A r \in records : r \in records'
        /\ \A x \in rows : x \in rows' ]_vars

\* the index of the first offer of s with the code c
FirstIndex(s, c) == CHOOSE k \in 1..Len(s) :
                      s[k].code = c /\ \A j \in 1..(k - 1) : s[j].code # c

\* C9: saveToDatabase (and the Map-based POST handler) hands the store at most
\* one row per (domain, code); every code of the input has its row; the row
\* carries the discount, terms and verified of the first offer with that code;
\* the rows are in first-occurrence order; an empty list makes no upsert call.
C9_DedupFirstWins ==
  handlerRun \in {"saveToDatabase", "postMap"} =>
    LET p == upsertPayload
        s == reqCoupons
    IN /\ \A i, j \in 1..Len(p) : i < j => p[i].code # p[j].code
       /\ \A i \in 1..Len(p) : p[i].domain = reqDomain
       /\ {p[i].code : i \in 1..Len(p)} = {s[k].code : k \in 1..Len(s)}
       /\ \A i \in 1..Len(p) :
            LET o == s[FirstIndex(s, p[i].code)]
            IN /\ p[i].discount = o.discount
               /\ p[i].terms = o.terms
               /\ p[i].verified = o.verified
       /\ \A i, j \in 1..Len(p) :
            i < j => FirstIndex(s, p[i].code) < FirstIndex(s, p[j].code)
       /\ (handlerRun = "saveToDatabase" /\ s = <<>>) => upsertResult = "none"

\* C9 witness: saveToDatabase was given the same code twice with different
\* details, another code in between, and sent two rows
C9_Witness ==
  /\ handlerRun = "saveToDatabase"
  /\ Len(reqCoupons) = 3
  /\ reqCoupons[1].code = reqCoupons[3].code
  /\ reqCoupons[1].code # reqCoupons[2].code
  /\ reqCoupons[1].discount # reqCoupons[3].discount
  /\ Len(upsertPayload) = 2
  /\ upsertPayload[1].discount = reqCoupons[1].discount
  /\ upsertResult = "ok"

\* C10: the payload a POST /coupons handler passes to the store's upsert holds
\* at most one entry per code, also when the posted coupon objects carry no
\* domain field of their own.
C10_PostPayloadDeduplicated ==
  handlerRun \in {"postReduce", "postMap", "postPlain"} =>
    \A i, j \in 1..Len(upsertPayload) :
      i < j => upsertPayload[i].code # upsertPayload[j].code

\* C11: saveToDatabase is idempotent: called again with the same input after a
\* call whose upsert did not fail, it leaves the table exactly as it was (the
\* same keys with the same discount, terms and verified); after a call that
\* failed the table is the prior one, and the second call is the first.
C11_SaveIdempotent ==
  [][ (/\ handlerRun = "saveToDatabase"
       /\ handlerRun' = "saveToDatabaseAgain"
       /\ upsertResult # "error") => rows' = rows ]_vars

\* C11 witness: the first call stored a row, time passed, the second call's
\* upsert succeeded
C11_Witness ==
  /\ handlerRun = "saveToDatabaseAgain"
  /\ upsertResult = "ok"
  /\ \E x \in rows : x.created_at > 0 /\ x.created_at < clock

\* C12: on every persistence path keyed on (domain, code), a row already in
\* the store is left unchanged by a later save, whatever discount, terms and
\* verified the save carries for its key.
C12_ExistingRowsUnchanged ==
  [][ \A x \in rows : x \in rows' ]_vars

\* C14: right after a successful save of a non-empty offer list, the lookup
\* of the domain returns an offer for every code just saved, whatever the
\* table held before, rows older than the lookup's window included.
C14_LookupReturnsSaved ==
  [][ (/\ handlerRun = "none"
       /\ handlerRun' = "saveToDatabase"
       /\ upsertResult' = "ok") =>
        \A i \in 1..Len(upsertPayload') :
          \E x \in LookupRows(rows', reqDomain, clock') :
            x.code = upsertPayload'[i].code ]_vars


-----------------------------------------------------------------------------
(***************************************************************************)
(* Claims about the API handlers                                           *)
(***************************************************************************)
\* a GET request that names its domain
ValidGet == route \in GetRoutes /\ reqHasDomain

\* a POST /coupons/scrape request with the right method and a domain
ValidPostScrape ==
  route \in PostScrapeRoutes /\ reqMethod = "POST" /\ reqHasDomain

\* C13: a GET lookup answers with stored offers only from data whose age,
\* now - lastUpdated, is strictly less than the 24 hours of the read-time
\* freshness window.
C13_LookupOnlyFresh ==
  ValidGet =>
    \A t \in servedFrom : clock - t < CACHE_TTL * 1000

\* C15: a GET /coupons request that finds a fresh record answers with the
\* stored offers, once, and makes no scrape and no write to the store.
C15_CacheHitNoScrapeNoWrite ==
  (/\ route \in RecordGetRoutes
   /\ \E i \in 1..Len(responses) : responses[i].kind = "cached") =>
     /\ scrapeCalls = 0
     /\ storeWrites = 0
     /\ hpc = "ended"
     /\ Len(responses) = 1
     /\ \E r \in records : r.domain = reqDomain /\ responses[1].coupons = r.coupons

\* C15 witness: the handler of coupons.js answered from a fresh record
C15_Witness ==
  /\ route = "coupons.js GET"
  /\ hpc = "ended"
  /\ Len(responses) = 1
  /\ responses[1].kind = "cached"
  /\ responses[1].status = 200
  /\ Len(responses[1].coupons) > 0

\* C16: whatever fails, the response of the synchronous GET path is the cached
\* offers or an empty or pending result, never an error status or an internal
\* error message.
C16_GetNeverExposesError ==
  ValidGet =>
    \A i \in 1..Len(responses) :
      responses[i].status = 200 /\ responses[i].kind # "error"

\* the handler has written exactly the 202
OnlyAccepted == responses = <<Response(202, "accepted", <<>>)>>

\* C17 as stated: a valid POST /coupons/scrape request gets exactly one
\* response, the 202, before any step of the pipeline, whatever the pipeline's
\* outcome; a request with a wrong method or without a domain gets one error
\* response and starts no scrape.
C17_FireAndForget ==
  route \in PostScrapeRoutes =>
    /\ Len(responses) <= 1
    /\ ValidPostScrape =>
         /\ hpc # "start" => OnlyAccepted
         /\ scrapeCalls <= 1
    /\ ~ValidPostScrape =>
         /\ scrapeCalls = 0
         /\ storeWrites = 0
         /\ hpc # "start" =>
              /\ hpc = "ended"
              /\ Len(responses) = 1
              /\ responses[1].status \in {400, 405}

\* C17 amended: the same, for a valid request to a handler whose store
\* credentials are configured; the handler of scrape.js 701 answers a valid
\* request with one 500 and starts no scrape when they are not.
C17_FireAndForgetConfigured ==
  route \in PostScrapeRoutes =>
    /\ Len(responses) <= 1
    /\ (ValidPostScrape /\ configured) =>
         /\ hpc # "start" => OnlyAccepted
         /\ scrapeCalls <= 1
    /\ (ValidPostScrape /\ ~configured) =>
         /\ scrapeCalls = 0
         /\ storeWrites = 0
         /\ hpc # "start" =>
              /\ hpc = "ended"
              /\ Len(responses) = 1
              /\ responses[1].status = 500
    /\ ~ValidPostScrape =>
         /\ scrapeCalls = 0
         /\ storeWrites = 0
         /\ hpc # "start" =>
              /\ hpc = "ended"
              /\ Len(responses) = 1
              /\ responses[1].status \in {400, 405}

\* C17 witness: the pipeline of an accepted request called the store after
\* its scrape and ended; the 202 is the only response
C17_Witness ==
  /\ ValidPostScrape
  /\ hpc = "ended"
  /\ scrapeCalls = 1
  /\ storeWrites = 1
  /\ OnlyAccepted


-----------------------------------------------------------------------------
(***************************************************************************)
(* Claims about the resolution phase of scrapeCoupons                      *)
(***************************************************************************)
\* the number of candidates of the listing
ListingLen == Len(basicCoupons)

\* candidate k of the listing has a detail URL and the sentinel code
NeedsDetail(k) == basicCoupons[k].url /\ basicCoupons[k].code = AUTOMATIC

\* every item of batch b has settled, with or without a page
ItemsSettled(b) == \A k \in BatchIds(b) : cst[k] \in {"settled", "noPage"}

\* C18 as stated: in a scrape that returned, a navigation to the detail URL
\* was made exactly once for each candidate with a detail URL and the
\* sentinel code, and never for another candidate.
C18_ExactlyPendingNavigated ==
  /\ \A k \in 1..ListingLen :
       navs[k] <= 1 /\ (navs[k] > 0 => NeedsDetail(k))
  /\ rpc = "returned" =>
       \A k \in 1..ListingLen :
         navs[k] = IF NeedsDetail(k) THEN 1 ELSE 0

\* C18 amended: in a scrape that returned, the resolver took up exactly once
\* each candidate with a detail URL and the sentinel code and never another
\* candidate; it navigated to the detail URL exactly once for each candidate
\* it took up, except for one whose page could not be opened, which has no
\* navigation.
C18_ExactlyPendingAttempted ==
  /\ \A k \in 1..ListingLen :
       /\ attempts[k] <= 1
       /\ navs[k] <= attempts[k]
       /\ attempts[k] > 0 => NeedsDetail(k)
  /\ rpc = "returned" =>
       \A k \in 1..ListingLen :
         /\ attempts[k] = IF NeedsDetail(k) THEN 1 ELSE 0
         /\ navs[k] = IF attempts[k] = 1 /\ cst[k] # "noPage" THEN 1 ELSE 0

\* C18 witness: three candidates, one with an inline code and a detail URL,
\* two pending: two navigations, the scrape returned
C18_Witness ==
  /\ rpc = "returned"
  /\ ListingLen = 3
  /\ \E k \in 1..ListingLen :
       /\ basicCoupons[k].url
       /\ basicCoupons[k].code # AUTOMATIC
       /\ navs[k] = 0
       /\ \A j \in (1..ListingLen) \ {k} :
            NeedsDetail(j) /\ navs[j] = 1

BatchStarted(b) ==
  \/ \E k \in BatchIds(b) : cst[k] # "idle"
  \/ \E p \in Pages : poolPages[b][p] # "none"

\* C20 as stated: no item of batch N+1 starts and no page of batch N+1 is
\* opened before every item of batch N has settled and every pooled page of
\* batch N has been closed.
C20_BatchesSequential ==
  \A b \in Batches : \A c \in Batches :
    (b < c /\ BatchStarted(c)) =>
      /\ ItemsSettled(b)
      /\ \A p \in Pages : poolPages[b][p] \in {"none", "closed"}

\* C20 amended: no item of batch N+1 starts and no page of batch N+1 is opened
\* before every item of batch N has settled and the close of every pooled
\* page of batch N has ended, with the page closed or with an error that is
\* logged.
C20_BatchesSequentialCloseAwaited ==
  \A b \in Batches : \A c \in Batches :
    (b < c /\ BatchStarted(c)) =>
      /\ ItemsSettled(b)
      /\ \A p \in Pages : poolPages[b][p] \in {"none", "closed", "closeFailed"}

\* C20 witness: the second batch of the pool variant is running after the
\* first closed both its pages
C20_Witness ==
  /\ variant = "pool"
  /\ batchIndex = 2
  /\ rpc = "await"
  /\ \A p \in 1..BatchSize : poolPages[1][p] = "closed"
  /\ \E k \in BatchIds(2) : cst[k] = "goto"


\* the pooled detail pages, of any batch, whose state is in S
PagesIn(S) == {bp \in Batches \X Pages : poolPages[bp[1]][bp[2]] \in S}

-----------------------------------------------------------------------------
(***************************************************************************)
(* More claims about getBrowser                                            *)
(***************************************************************************)
\* a browser exists and was handed out less than 120000 ms before time t
ExistsAndRecent(t) ==
  /\ browserInstance # 0
  /\ browserLastUsed # 0
  /\ t - browserLastUsed < 120000

\* C22: a getBrowser call returns the existing browser, without a close or a
\* launch, exactly when a browser exists and less than 120000 ms have passed
\* since the last-used time; otherwise it calls close() on the existing
\* browser, if any, and then launches a fresh one; a call that returns leaves
\* the last-used time at the time the call was made.
C22_ReusePolicy ==
  [][ \A c \in Callers :
        /\ (gpc[c] = "idle" /\ gpc'[c] # "idle") =>
             IF ExistsAndRecent(now)
               THEN /\ gpc'[c] = "holding"
                    /\ held'[c] = browserInstance
                    /\ browserInstance' = browserInstance
                    /\ browsers' = browsers
                    /\ browserLastUsed' = now
               ELSE /\ currentTime'[c] = now
                    /\ browserLastUsed' = browserLastUsed
                    /\ browsers' = browsers
                    /\ IF browserInstance # 0
                         THEN gpc'[c] = "close" /\ held'[c] = browserInstance
                         ELSE gpc'[c] = "launch"
        /\ (gpc[c] = "close" /\ gpc'[c] # "close") => gpc'[c] = "launch"
        /\ (gpc[c] = "launch" /\ gpc'[c] = "patch") =>
             /\ browserInstance' # 0
             /\ browsers[browserInstance'] = "none"
             /\ browsers'[browserInstance'] = "open"
        /\ (gpc[c] = "patch" /\ gpc'[c] = "holding") =>
             /\ held'[c] # 0
             /\ held'[c] = browserInstance
             /\ browserLastUsed' = currentTime[c] ]_vars

\* C22 witness: the first browser was closed after its reuse window and both
\* callers hold the second, the later of them by a reuse at the present time
C22_Witness ==
  /\ browsers[1] = "closed"
  /\ browsers[2] = "open"
  /\ browserInstance = 2
  /\ \A c \in Callers : gpc[c] = "holding" /\ held[c] = 2
  /\ \A b \in BrowserIds : b > 2 => browsers[b] = "none"
  /\ browserLastUsed = now
  /\ now >= 3 * MinuteMs

-----------------------------------------------------------------------------
(***************************************************************************)
(* Claims about the bulk run                                               *)
(***************************************************************************)
\* main went through every letter and reported
RanThrough == lpc \in {"returned", "exit1"} /\ credsSet

\* C23: a domain whose processing fails permanently, by the failed result or
\* by an exception, never prevents the other domains of its batch, the
\* following batches of its letter or the following letters from being
\* processed: a failure never ends the run, every domain of a letter main has
\* left was counted, and the domains of the running letter before the batch
\* were.
C23_FailureNeverAborts ==
  /\ [][ lpc' = "fatal" => lpc = "enumerate" ]_vars
  /\ [](lpc # "idle" =>
         /\ \A l \in Letters : l < letterIndex => processed[l] = enumerated[l]
         /\ lpc \in {"batch", "await", "batchDelay"} =>
              processed[letterIndex] =
                IF lpc = "batchDelay" THEN letterI + ConcurrentDomains ELSE letterI
         /\ RanThrough => \A l \in Letters : processed[l] = enumerated[l])

\* C23 witness: the first domain of the first letter failed, and the run went
\* through with every other domain of two full letters processed successfully
C23_Witness ==
  /\ lpc = "returned"
  /\ firstFailure = <<1, 1>>
  /\ \A l \in Letters : enumerated[l] = MaxDomains /\ processed[l] = MaxDomains
  /\ bulkErrorCount = 1
  /\ bulkSuccessCount = MaxLetters * MaxDomains - 1

C25_DelaysElapse ==
  /\ (lpc = "batch" /\ letterI > 0) => restMs >= DelayBetweenDomains
  /\ (lpc = "enumerate" /\ letterIndex > 1) => restMs >= 2 * DelayBetweenDomains

-----------------------------------------------------------------------------
(***************************************************************************)
(* Claims about the maintenance handler and the persisted data             *)
(***************************************************************************)
\* C26: a successful call of the maintenance handler deletes exactly the rows
\* created more than 7 days before the call and leaves every other row as it
\* was; no row the GET lookup of the table returns at that moment, for any
\* domain, is deleted; a call that fails deletes nothing.
C26_DeletesExactlyExpired ==
  [][ (handlerRun = "none" /\ handlerRun' = "cleanup") =>
        IF upsertResult' = "ok"
          THEN /\ rows' = {x \in rows : clock - x.created_at <= SevenDaysMs}
               /\ \A d \in {StoreDomain, OtherDomain} :
                    LookupRows(rows', d, clock) = LookupRows(rows, d, clock)
          ELSE rows' = rows ]_vars

\* C26 witness: the handler deleted a row and kept a row of exactly 7 days,
\* which the lookup returns
C26_Witness ==
  /\ handlerRun = "cleanup"
  /\ upsertResult = "ok"
  /\ deletedRows # {}
  /\ \E x \in rows : clock - x.created_at = SevenDaysMs
  /\ \E d \in {StoreDomain, OtherDomain} : LookupRows(rows, d, clock) # {}

\* the properties that tie a coupon object to its scan
CorrelationFields == {"id", "elementId", "modalUrl"}

\* C27: no row and no offer written to the store carries the sequence id, the
\* local element id or the detail URL of a candidate.
C27_NoCorrelationFieldStored ==
  \A o \in storedObjects : DOMAIN o \cap CorrelationFields = {}

\* C28: a failure of the upsert inside saveToDatabase, an error result or an
\* exception, is logged there: the call never raises, makes one upsert attempt
\* and no second, and leaves the offer list it was given as it was.
C28_SaveFailureContained ==
  /\ [](spc # "raised" /\ upsertAttempts <= 1)
  /\ []((spc = "returned" /\ upsertResult \in {"error", "exception"}) =>
          upsertAttempts = 1)
  /\ [][ reqCoupons' = reqCoupons ]_vars
  /\ [][ (spc \in {"logError", "logException"} /\ spc' # spc) =>
           spc' = "returned" ]_vars

\* C28 witness: a call whose upsert rejected has returned
C28_Witness ==
  /\ spc = "returned"
  /\ upsertResult = "exception"
  /\ upsertAttempts = 1
  /\ Len(reqCoupons) > 1

\* C29: a timeout of the navigation to the listing page does not end the
\* attempt: whatever the navigation's outcome the attempt goes on to the
\* extraction of the listing.
C29_NavigationTimeoutNonFatal ==
  [][ \A d \in Domains :
        (dpc[d] = "goto" /\ dpc'[d] # "goto") => dpc'[d] = "listing" ]_vars

\* C30: on every page the anti-automation patch is installed with
\* evaluateOnNewDocument before the first navigation of the page is issued.
C30_PatchBeforeNavigation ==
  \A p \in SetupPages :
    \A i \in 1..Len(pageCalls[p]) :
      pageCalls[p][i] = "goto" =>
        \E j \in 1..(i - 1) : pageCalls[p][j] = "evaluateOnNewDocument"

-----------------------------------------------------------------------------
(***************************************************************************)
(* Claims about the extraction on a detail page                            *)
(***************************************************************************)
\* the value the fallback chain takes from an element: an input's trimmed
\* value; for another element the first non-empty one of the trimmed
\* clipboard attribute, the trimmed code attribute and the trimmed text
ChainValue(e) ==
  IF e.tag = "INPUT" THEN Trim(e.value)
  ELSE IF Trim(e.clip) # <<>> THEN Trim(e.clip)
  ELSE IF Trim(e.dataCode) # <<>> THEN Trim(e.dataCode)
  ELSE Trim(e.text)

\* the selectors whose matched element yields a non-empty value
Yielding(d) == {s \in Selectors : d[s] # NoElement /\ ChainValue(d[s]) # <<>>}

\* the smallest element of a non-empty set of selectors
FirstOf(S) == CHOOSE s \in S : \A t \in S : s <= t

\* C31: when the task of an item has taken the code, the code is the value
\* of the first selector, in the priority order, whose element yields a
\* non-empty value in the document the last pass looked at, and it is the
\* sentinel only when no selector yields one after the second pass.
C31_FallbackChain ==
  xpc = "done" =>
    /\ Yielding(dom) # {} => itemCode = ChainValue(dom[FirstOf(Yielding(dom))])
    /\ Yielding(dom) = {} => itemCode = AutomaticCode /\ passes = 2

-----------------------------------------------------------------------------
(***************************************************************************)
(* Claims about the listing extraction                                     *)
(***************************************************************************)
\* C32: every candidate a listing extraction produces has a non-empty
\* discount and non-empty terms, and the candidate made from a card whose
\* title (description) element is absent or has an empty trimmed text has
\* the discount "Discount" (the terms "Terms apply").
C32_DiscountTermsNonEmpty ==
  /\ \A k \in 1..Len(candidates) :
       candidates[k].discount # <<>> /\ candidates[k].terms # <<>>
  /\ lastCard.isCoupon =>
       LET made == candidates[Len(candidates)] IN
         /\ (~lastCard.hasTitle \/ Trim(lastCard.title) = <<>>)
              => made.discount = <<"Discount">>
         /\ (~lastCard.hasDescription \/ Trim(lastCard.description) = <<>>)
              => made.terms = <<"Terms apply">>

\* a second candidate was made from a card with a blank title and no
\* description element
C32_Witness ==
  /\ Len(candidates) = 2
  /\ lastCard.isCoupon
  /\ lastCard.hasTitle /\ lastCard.title = <<" ">>
  /\ ~lastCard.hasDescription
  /\ candidates[2].discount = <<"Discount">>

\* C39: every offer scrapeCoupons returns with the code the listing gave it
\* has a non-empty code.
C39_CodeNeverEmpty ==
  \A k \in 1..Len(bypassed) : bypassed[k].code # <<>>

-----------------------------------------------------------------------------
(***************************************************************************)
(* Claims about the tallies of the bulk run                                *)
(***************************************************************************)
\* the number of domains the enumerations of the letters 1..l returned
RECURSIVE EnumeratedUpTo(_)
EnumeratedUpTo(l) == IF l = 0 THEN 0 ELSE enumerated[l] + EnumeratedUpTo(l - 1)

\* the scrape of domain d of the batch returned at least one offer
ReturnedOffers(d) == taskResult[d] \in {"ok", "unsaved"}

\* the domains of the batch whose results are being counted
Counted == {d \in Domains : taskResult[d] \notin {"none", "running"}}

\* C33: the tallies account for every domain exactly once: whenever results
\* are counted, the success tally grows by the number of domains of the batch
\* whose scrape returned at least one offer and the error tally by the number
\* of the others, and at the end of main the two tallies add up to the number
\* of domains all enumerations returned.
C33_TalliesAccountForAll ==
  /\ [][ (bulkSuccessCount' # bulkSuccessCount
           \/ bulkErrorCount' # bulkErrorCount) =>
           /\ bulkSuccessCount' - bulkSuccessCount =
                Cardinality({d \in Counted : ReturnedOffers(d)})
           /\ bulkErrorCount' - bulkErrorCount =
                Cardinality({d \in Counted : ~ReturnedOffers(d)}) ]_vars
  /\ [][ processed' # processed => bulkSuccessCount' + bulkErrorCount'
           = bulkSuccessCount + bulkErrorCount + Cardinality(Counted) ]_vars
  /\ [](RanThrough =>
          bulkSuccessCount + bulkErrorCount = EnumeratedUpTo(MaxLetters))

\* C33 witness: main ended after two full letters with domains in both tallies
C33_Witness ==
  /\ lpc = "returned"
  /\ \A l \in Letters : enumerated[l] = MaxDomains
  /\ bulkSuccessCount = MaxDomains + 1
  /\ bulkErrorCount = MaxDomains - 1

\* C36: a domain is counted as a success only if its offers were written to
\* the store: the success tally grows by no more than the number of domains of
\* the batch whose upsert succeeded.
C36_SuccessMeansStored ==
  [][ bulkSuccessCount' - bulkSuccessCount <=
        Cardinality({d \in Counted : taskResult[d] = "ok"}) ]_vars

-----------------------------------------------------------------------------
(***************************************************************************)
(* Claims about the browser an in-flight scrape uses                       *)
(***************************************************************************)
\* C34: getBrowser never closes a browser that a scrape obtained from it and
\* is still using: the browser a caller holds is open.
C34_InUseNeverClosed ==
  \A c \in Callers : gpc[c] = "holding" => browsers[held[c]] = "open"

-----------------------------------------------------------------------------
(***************************************************************************)
(* Claims about the closing of pages                                       *)
(***************************************************************************)
\* C35: every page opened during a domain scrape or a category enumeration
\* (the listing page, the enumerator page, a pooled detail page) is
\* eventually closed, also when one of its calls rejected.
C35_PagesEventuallyClosed ==
  \A p \in SetupPages :
    pageKind[p] \in {"scrapeDomains 134", "scrapeCoupons 229",
                     "processModalBatch 450"}
      => <>(pageState[p] = "closed")

-----------------------------------------------------------------------------
(***************************************************************************)
(* Claims about processBatch                                               *)
(***************************************************************************)
\* the number of entries of results for item i
EntriesOf(i) == Cardinality({k \in 1..Len(results) : results[k] = i})

\* C37: for every batch and every concurrency limit of at least 1, at most
\* concurrentLimit items are in progress at any time, no item is taken from
\* the queue more than once, and when processBatch returns every item was
\* taken once and results holds exactly one entry for each item, also for an
\* item whose timer and whose navigation both resolved its promise.
C37_QueueResolverExact ==
  /\ Cardinality(inProgress) <= concurrentLimit
  /\ Cardinality({c \in DOMAIN chainPc :
                    chainPc[c] \in {"newPage", "awaitPromise"}})
       <= concurrentLimit
  /\ \A i \in QueueItems : taken[i] <= 1 /\ EntriesOf(i) <= taken[i]
  /\ pbpc = "returned" =>
       /\ Len(results) = numCoupons
       /\ \A i \in 1..numCoupons : taken[i] = 1 /\ EntriesOf(i) = 1

\* C37 witness: a batch larger than the limit was returned, and for its first
\* item the timer fired before the navigation ended
C37_Witness ==
  /\ pbpc = "returned"
  /\ numCoupons = MaxQueueItems
  /\ concurrentLimit < numCoupons
  /\ timeoutId[1] = "fired" /\ navigation[1] = "ended"
  /\ Len(results) = numCoupons

-----------------------------------------------------------------------------
=============================================================================
